---- MODULE Spec2Model ----
(***************************************************************************)
(* Model of the concurrent-chat server (presence over socket.io, the       *)
(* worker jobs behind the HTTP api) and of the client worker's reaction    *)
(* to the server's events.                                                 *)
(*                                                                         *)
(* Every `await` of a handler is a point where other handlers run, so a    *)
(* handler is a chain of actions, one per resumption.  Store documents are *)
(* read into a local copy (a Mongoose document) and written back by        *)
(* save().                                                                 *)
(***************************************************************************)
EXTENDS Integers, Sequences, FiniteSets, TLC

(* ----------------------------- bounds ---------------------------------- *)
MaxSockets == 3
MaxReqs == 2
MaxClients == 2
MaxRuns == 2

Sockets == 1..MaxSockets
Reqs == 1..MaxReqs
Runs == 1..MaxRuns

(* the ids a connecting client sends, <<chatId, userId>>: chat 1 and users *)
(* 1 and 2 are in the store, no document has id 9                          *)
Handshakes == {<<1, 1>>, <<1, 2>>, <<9, 1>>, <<1, 9>>}

(* ----------------------------- state ----------------------------------- *)
VARIABLES
  chats,      \* Chat collection, in insertion order: [id, name, users, v]
  users,      \* User collection, in createdAt order: [id, name, tag]
  messages,   \* Message collection: [id, chat, user, content]
  sockPc,     \* position of each socket's handler
  sockHs,     \* socket.handshake.query: <<chatId, userId>>
  sockOpen,   \* the transport of the socket is connected
  sockRoom,   \* the room the socket joined (0: none)
  sockChat,   \* the handler's local Chat document
  emitted,    \* every event handed to socket.io, in order
  inbox,      \* events delivered to each socket and not yet handled
  reqPc,      \* position of each HTTP request (handler and worker job)
  reqMsg,     \* the message sent to the worker: [op, chatId, userId, text]
  reqDoc,     \* the job's local document(s)
  reqRes,     \* the job's reply / the HTTP answer
  received,   \* client: events handled so far, in order
  typing,     \* client: typingUsersWithTimeout, [user, timeout]
  timers,     \* client: pending timeouts, [id, user]
  nextTimer,  \* client: next timeout id
  posted,     \* client: events posted to the main thread
  chatUsers,  \* client: threadWorker.chatUsers, the users of the chat
  appUsers,   \* client (App): app.users
  appTypingUsers, \* client (App): app.typingUsers, [user, timeout]
  bootPc,     \* position of the server's startup
  clearPc,    \* startup: position of Chat.clearChatsFromUsers()
  swPc,       \* position of each run of the retention sweep
  swSince,    \* sweep: sinceDate of the run
  swChats,    \* sweep: the documents Chat.find() returned
  swIdx,      \* sweep: position of the for-loop in swChats
  swCounting, \* sweep: chats whose countDocuments is pending
  swRemoving, \* sweep: chats whose chat.remove() is pending
  removed,    \* every document deleted from the store: [kind, doc, run]
  uiArg,      \* ui: the typingUsers array handed to drawTypingUsers
  uiTyping,   \* ui: the typing indicator, [hidden, nodes]
  poolId,     \* pool: the id the generator yields next
  callbacks,  \* pool: this.callbacks, the ids waiting for a reply
  promises,   \* pool: the promise of each call of send
  busy,       \* pool: worker.busy
  rrNext,     \* pool: position of the circular sequence of workers
  toWorker,   \* messages sent to each worker and not yet received
  running,    \* worker: jobs whose promise is pending, [id, worker]
  toMain,     \* replies sent by each worker and not yet received
  replies,    \* every reply a worker sent, in order
  schedulingPolicy, \* pool: this.schedulingPolicy
  sentTo      \* pool: the worker each call of send picked, in order

storeVars == <<chats, users, messages>>
sockVars == <<sockPc, sockHs, sockOpen, sockRoom, sockChat>>
ioVars == <<emitted, inbox>>
reqVars == <<reqPc, reqMsg, reqDoc, reqRes>>
memoryVars == <<chatUsers, appUsers, appTypingUsers>>
clientVars == <<received, typing, timers, nextTimer, posted, memoryVars>>
serverVars == <<bootPc, clearPc, swPc, swSince, swChats, swIdx, swCounting, swRemoving, removed>>
uiVars == <<uiArg, uiTyping>>
poolVars == <<poolId, callbacks, promises, busy, rrNext, toWorker, running, toMain, replies,
              schedulingPolicy, sentTo>>
vars == <<storeVars, sockVars, ioVars, reqVars, clientVars, serverVars, uiVars, poolVars>>

(* ------------------------------- time ---------------------------------- *)
(* Dates are counted in weeks.  new Date().getTime(): the handlers looked  *)
(* at run within one week, so that documents saved by them carry the       *)
(* createdAt Now and a sweep computes its sinceDate from Now               *)
Now == 4

twoWeeksInMilliSeconds == 2

(* --------------------------- documents --------------------------------- *)
(* the documents of a kind that were deleted from the store; a new         *)
(* document gets an id that no document had before                         *)
Removed(kind) == SelectSeq(removed, LAMBDA x : x.kind = kind)

NoChat == [id |-> 0, name |-> "", users |-> <<>>, v |-> 0, createdAt |-> 0]
NoUser == [id |-> 0, name |-> "", tag |-> 0]
NoMessage == [id |-> 0, chat |-> 0, user |-> 0, content |-> "", createdAt |-> 0]
NoRes ==
  [statusCode |-> 0, chatMessage |-> NoMessage, user |-> NoUser, chat |-> NoChat,
   list |-> <<>>]

(* Chat.findById(id).populate("users"): a copy of the stored document      *)
ChatFindById(id) ==
  IF \E i \in 1..Len(chats) : chats[i].id = id
  THEN chats[CHOOSE i \in 1..Len(chats) : chats[i].id = id]
  ELSE NoChat

(* User.findById(id)                                                       *)
UserFindById(id) ==
  IF \E i \in 1..Len(users) : users[i].id = id
  THEN users[CHOOSE i \in 1..Len(users) : users[i].id = id]
  ELSE NoUser

(* users.filter(user => user._id.equals(filterUser._id))                   *)
getMatchedUsers(us, filterUser) == SelectSeq(us, LAMBDA x : x = filterUser)

(* users.findIndex(...): 1-based position of the first match, 0 for JS -1  *)
findIndex(us, u) ==
  IF \E i \in 1..Len(us) : us[i] = u
  THEN CHOOSE i \in 1..Len(us) : us[i] = u /\ \A j \in 1..(i - 1) : us[j] # u
  ELSE 0

(* users.splice(index, 1)                                                  *)
spliceNothing(us, i) == us

splice(us, i) == SubSeq(us, 1, i - 1) \o SubSeq(us, i + 1, Len(us))

(* chat.users.push(user); chat.save(): Mongoose sends the push as an       *)
(* atomic $push on the stored array and increments the version key         *)
ChatSavePush(id, u) ==
  [i \in 1..Len(chats) |->
     IF chats[i].id = id
     THEN [chats[i] EXCEPT !.users = Append(@, u), !.v = @ + 1]
     ELSE chats[i]]

(* chat.users.splice(i, 1); chat.save(): Mongoose sends the whole array    *)
(* ($set) guarded by the version key the document was loaded with          *)
ChatSaveSpliceMatches(doc) ==
  \E i \in 1..Len(chats) : chats[i].id = doc.id /\ chats[i].v = doc.v

ChatSaveSplice(doc) ==
  [i \in 1..Len(chats) |->
     IF chats[i].id = doc.id
     THEN [chats[i] EXCEPT !.users = doc.users, !.v = @ + 1]
     ELSE chats[i]]

(* ---------------------------- socket.io -------------------------------- *)
(* an emitted event: its name, the rooms it is addressed to, its payload   *)
(* and the request whose reply emitted it (0: a socket handler)            *)
Event(name, rooms, payload, call) ==
  [name |-> name, rooms |-> rooms, payload |-> payload, call |-> call]

(* io.to(room).emit(...): handed to every connected socket of the room;    *)
(* io.emit(...), no room: handed to every connected socket                 *)
InRoom(joined, open, rooms) ==
  {s \in Sockets :
     open[s] /\ (rooms = <<>> \/ \E i \in 1..Len(rooms) : joined[s] = rooms[i])}

Deliver(box, joined, open, evs) ==
  [s \in Sockets |->
     box[s] \o SelectSeq(evs, LAMBDA e : s \in InRoom(joined, open, e.rooms))]

Emit(joined, evs) ==
  /\ emitted' = emitted \o evs
  /\ inbox' = Deliver(inbox, joined, sockOpen, evs)

(* user.toClientObject()                                                   *)
UserToClientObject(u) == [id |-> u.id, name |-> u.name, tag |-> u.tag]

(* emit(name, user.toClientObject()) to the room of the handshake's chat;  *)
(* User documents never change once they are saved                         *)
PresenceEventToEveryone(name, hs) ==
  Event(name, <<>>, UserToClientObject(UserFindById(hs[2])), 0)

PresenceEvent(name, hs) ==
  Event(name, <<hs[1]>>, UserToClientObject(UserFindById(hs[2])), 0)

(* ------------------------- Socket.onConnect ---------------------------- *)
(* the emit conditions of onConnect and onDisconnect                       *)
ConnectArrivedWhenListed(us, u) == Len(getMatchedUsers(us, u)) >= 1
ConnectArrived(us, u) == Len(getMatchedUsers(us, u)) = 1
DisconnectDeparted(us, u) == Len(getMatchedUsers(us, u)) = 0

(* mongoose.isValidObjectId(id): the id 0 stands for a missing or          *)
(* malformed id                                                            *)
isValidObjectId(id) == id # 0

(* a socket connects (sockets are numbered in the order in which they      *)
(* connect): the ids are valid ObjectIds, Chat.findById is issued          *)
OnConnect(s, hs) ==
  /\ sockPc[s] = "new"
  /\ \A q \in 1..(s - 1) : sockPc[q] # "new"
  /\ isValidObjectId(hs[1]) /\ isValidObjectId(hs[2])
  /\ sockPc' = [sockPc EXCEPT ![s] = "cFindChat"]
  /\ sockHs' = [sockHs EXCEPT ![s] = hs]
  /\ sockOpen' = [sockOpen EXCEPT ![s] = TRUE]
  /\ UNCHANGED <<sockRoom, sockChat, storeVars, ioVars, reqVars, clientVars>>
  /\ UNCHANGED <<serverVars, uiVars, poolVars>>

(* a socket connects with a chatId or userId that is not a valid ObjectId: *)
(* onConnect returns at once                                               *)
OnConnectInvalid(s, hs) ==
  /\ sockPc[s] = "new"
  /\ \A q \in 1..(s - 1) : sockPc[q] # "new"
  /\ ~(isValidObjectId(hs[1]) /\ isValidObjectId(hs[2]))
  /\ sockPc' = [sockPc EXCEPT ![s] = "dropped"]
  /\ sockHs' = [sockHs EXCEPT ![s] = hs]
  /\ sockOpen' = [sockOpen EXCEPT ![s] = TRUE]
  /\ UNCHANGED <<sockRoom, sockChat, storeVars, ioVars, reqVars, clientVars>>
  /\ UNCHANGED <<serverVars, uiVars, poolVars>>

(* Chat.findById resolved with a chat: User.findById is issued             *)
ConnectChatFound(s) ==
  /\ sockPc[s] = "cFindChat"
  /\ ChatFindById(sockHs[s][1]) # NoChat
  /\ sockChat' = [sockChat EXCEPT ![s] = ChatFindById(sockHs[s][1])]
  /\ sockPc' = [sockPc EXCEPT ![s] = "cFindUser"]
  /\ UNCHANGED <<sockHs, sockOpen, sockRoom, storeVars, ioVars, reqVars, clientVars>>
  /\ UNCHANGED <<serverVars, uiVars, poolVars>>

(* Chat.findById resolved with null: return                                *)
ConnectChatMissingIgnored(s) ==
  /\ sockPc[s] = "cFindChat"
  /\ ChatFindById(sockHs[s][1]) = NoChat
  /\ sockChat' = [sockChat EXCEPT ![s] = NoChat]
  /\ sockPc' = [sockPc EXCEPT ![s] = "cFindUser"]
  /\ UNCHANGED <<sockHs, sockOpen, sockRoom, storeVars, ioVars, reqVars, clientVars>>
  /\ UNCHANGED <<serverVars, uiVars, poolVars>>

ConnectChatMissing(s) ==
  /\ sockPc[s] = "cFindChat"
  /\ ChatFindById(sockHs[s][1]) = NoChat
  /\ sockPc' = [sockPc EXCEPT ![s] = "dropped"]
  /\ UNCHANGED <<sockHs, sockOpen, sockRoom, sockChat, storeVars, ioVars, reqVars, clientVars>>
  /\ UNCHANGED <<serverVars, uiVars, poolVars>>

(* User.findById resolved with a user: push it and issue chat.save()       *)
ConnectUserFound(s) ==
  /\ sockPc[s] = "cFindUser"
  /\ UserFindById(sockHs[s][2]) # NoUser
  /\ sockChat' = [sockChat EXCEPT ![s].users = Append(@, sockHs[s][2])]
  /\ sockPc' = [sockPc EXCEPT ![s] = "cSave"]
  /\ UNCHANGED <<sockHs, sockOpen, sockRoom, storeVars, ioVars, reqVars, clientVars>>
  /\ UNCHANGED <<serverVars, uiVars, poolVars>>

(* User.findById resolved with null: return                                *)
ConnectUserMissing(s) ==
  /\ sockPc[s] = "cFindUser"
  /\ UserFindById(sockHs[s][2]) = NoUser
  /\ sockPc' = [sockPc EXCEPT ![s] = "dropped"]
  /\ UNCHANGED <<sockHs, sockOpen, sockRoom, sockChat, storeVars, ioVars, reqVars, clientVars>>
  /\ UNCHANGED <<serverVars, uiVars, poolVars>>

(* the store applies the save of onConnect                                 *)
ConnectSave(s) ==
  /\ sockPc[s] = "cSave"
  /\ chats' = ChatSavePush(sockHs[s][1], sockHs[s][2])
  /\ sockPc' = [sockPc EXCEPT ![s] = "cSaved"]
  /\ UNCHANGED <<users, messages, sockHs, sockOpen, sockRoom, sockChat, ioVars, reqVars, clientVars>>
  /\ UNCHANGED <<serverVars, uiVars, poolVars>>

(* onConnect resumes after chat.save(): join, emit, listen to disconnect   *)
ConnectJoin(s) ==
  /\ sockPc[s] = "cSaved"
  /\ sockRoom' = [sockRoom EXCEPT ![s] = sockHs[s][1]]
  /\ Emit(sockRoom',
          IF ConnectArrived(sockChat[s].users, sockHs[s][2])
          THEN <<PresenceEvent("userConnected", sockHs[s])>>
          ELSE <<>>)
  /\ sockPc' = [sockPc EXCEPT ![s] = "joined"]
  /\ UNCHANGED <<sockHs, sockOpen, sockChat, storeVars, reqVars, clientVars>>
  /\ UNCHANGED <<serverVars, uiVars, poolVars>>

(* ------------------------ Socket.onDisconnect -------------------------- *)
(* the transport of a socket closes.  The "disconnect" event reaches       *)
(* onDisconnect only if onConnect has already attached its listener.       *)
TransportDisconnect(s) ==
  /\ sockOpen[s]
  /\ sockOpen' = [sockOpen EXCEPT ![s] = FALSE]
  /\ sockPc' = [sockPc EXCEPT ![s] = IF @ = "joined" THEN "dFindChat" ELSE @]
  /\ UNCHANGED <<sockHs, sockRoom, sockChat, storeVars, ioVars, reqVars, clientVars>>
  /\ UNCHANGED <<serverVars, uiVars, poolVars>>

(* Chat.findById resolved: return without the chat or without the user in  *)
(* chat.users, otherwise splice the user out and issue chat.save()         *)
DisconnectChatFound(s) ==
  /\ sockPc[s] = "dFindChat"
  /\ LET chat == ChatFindById(sockHs[s][1])
         chatUserIndex == findIndex(chat.users, sockHs[s][2])
     IN IF chat = NoChat \/ chatUserIndex = 0
        THEN /\ sockPc' = [sockPc EXCEPT ![s] = "dNone"]
             /\ UNCHANGED sockChat
        ELSE /\ sockPc' = [sockPc EXCEPT ![s] = "dSave"]
             /\ sockChat' = [sockChat EXCEPT ![s] =
                  [chat EXCEPT !.users = splice(@, chatUserIndex)]]
  /\ UNCHANGED <<sockHs, sockOpen, sockRoom, storeVars, ioVars, reqVars, clientVars>>
  /\ UNCHANGED <<serverVars, uiVars, poolVars>>

(* the store applies the save of onDisconnect                              *)
DisconnectSave(s) ==
  /\ sockPc[s] = "dSave"
  /\ ChatSaveSpliceMatches(sockChat[s])
  /\ chats' = ChatSaveSplice(sockChat[s])
  /\ sockPc' = [sockPc EXCEPT ![s] = "dSaved"]
  /\ UNCHANGED <<users, messages, sockHs, sockOpen, sockRoom, sockChat, ioVars, reqVars, clientVars>>
  /\ UNCHANGED <<serverVars, uiVars, poolVars>>

(* the stored version moved on: save() rejects and the handler ends        *)
DisconnectSaveRejected(s) ==
  /\ sockPc[s] = "dSave"
  /\ ~ChatSaveSpliceMatches(sockChat[s])
  /\ sockPc' = [sockPc EXCEPT ![s] = "failed"]
  /\ UNCHANGED <<sockHs, sockOpen, sockRoom, sockChat, storeVars, ioVars, reqVars, clientVars>>
  /\ UNCHANGED <<serverVars, uiVars, poolVars>>

(* onDisconnect resumes after chat.save(): emit                            *)
DisconnectEmit(s) ==
  /\ sockPc[s] = "dSaved"
  /\ Emit(sockRoom,
          IF DisconnectDeparted(sockChat[s].users, sockHs[s][2])
          THEN <<PresenceEvent("userDisconnected", sockHs[s])>>
          ELSE <<>>)
  /\ sockPc' = [sockPc EXCEPT ![s] = "done"]
  /\ UNCHANGED <<sockHs, sockOpen, sockRoom, sockChat, storeVars, reqVars, clientVars>>
  /\ UNCHANGED <<serverVars, uiVars, poolVars>>

SocketStep(s) ==
  \/ \E hs \in Handshakes : OnConnect(s, hs)
  \/ ConnectChatFound(s)
  \/ ConnectChatMissing(s)
  \/ ConnectUserFound(s)
  \/ ConnectUserMissing(s)
  \/ ConnectSave(s)
  \/ ConnectJoin(s)
  \/ TransportDisconnect(s)
  \/ DisconnectChatFound(s)
  \/ DisconnectSave(s)
  \/ DisconnectSaveRejected(s)
  \/ DisconnectEmit(s)

(* ------------------- worker jobs and their route handlers -------------- *)
(* chatMessage.toClientObject(), with the populated user                   *)
MessageToClientObject(m, u) ==
  [id |-> m.id, content |-> m.content, user |-> UserToClientObject(u),
   createdAt |-> m.createdAt]

(* chat.users.find(user => user._id.toString() === userId) on the          *)
(* populated list                                                          *)
ChatUsersFind(chat, userId) ==
  IF findIndex(chat.users, userId) # 0 THEN UserFindById(userId) ELSE NoUser

(* the two emits of ChatRouteManager.postChatMessage's then-callback       *)
PostChatMessageEmitsStoppedFirst(r, chatId, res) ==
  (IF res.user # NoUser
   THEN <<Event("userStoppedTyping", <<chatId>>, res.user, r)>> ELSE <<>>)
  \o
  (IF res.chatMessage # NoMessage
   THEN <<Event("messagePosted", <<chatId>>, res.chatMessage, r)>> ELSE <<>>)

PostChatMessageEmits(r, chatId, res) ==
  (IF res.chatMessage # NoMessage
   THEN <<Event("messagePosted", <<chatId>>, res.chatMessage, r)>> ELSE <<>>)
  \o
  (IF res.user # NoUser
   THEN <<Event("userStoppedTyping", <<chatId>>, res.user, r)>> ELSE <<>>)

(* the emit of ChatRouteManager.postChatUserTyping's then-callback         *)
PostChatUserTypingEmitsAlways(r, chatId, res) ==
  <<Event("userStartedTyping", <<chatId>>, res.user, r)>>

PostChatUserTypingEmits(r, chatId, res) ==
  IF res.user # NoUser
  THEN <<Event("userStartedTyping", <<chatId>>, res.user, r)>> ELSE <<>>

(* requests are numbered in the order in which they are sent to the pool   *)
NextToSend(r) == reqPc[r] = "idle" /\ \A q \in 1..(r - 1) : reqPc[q] # "idle"

(* POST /api/chats/:chatId/message: the job starts; missing fields: 400    *)
PostChatMessage(r, chatId, userId, text) ==
  /\ NextToSend(r)
  /\ reqMsg' = [reqMsg EXCEPT ![r] =
       [op |-> "postChatMessage", chatId |-> chatId, userId |-> userId, text |-> text]]
  /\ IF text = ""
     THEN /\ reqPc' = [reqPc EXCEPT ![r] = "reply"]
          /\ reqRes' = [reqRes EXCEPT ![r] = [NoRes EXCEPT !.statusCode = 400]]
     ELSE /\ reqPc' = [reqPc EXCEPT ![r] = "pFindChat"]
          /\ UNCHANGED reqRes
  /\ UNCHANGED <<reqDoc, storeVars, sockVars, ioVars, clientVars>>
  /\ UNCHANGED <<serverVars, uiVars, poolVars>>

(* Chat.findById resolved: 404 without the chat or without the user in     *)
(* chat.users, otherwise the message is built and save() is issued         *)
PostChatFound(r) ==
  /\ reqPc[r] = "pFindChat"
  /\ LET chat == ChatFindById(reqMsg[r].chatId)
     IN IF chat = NoChat \/ ChatUsersFind(chat, reqMsg[r].userId) = NoUser
        THEN /\ reqPc' = [reqPc EXCEPT ![r] = "reply"]
             /\ reqRes' = [reqRes EXCEPT ![r] = [NoRes EXCEPT !.statusCode = 404]]
             /\ UNCHANGED reqDoc
        ELSE /\ reqPc' = [reqPc EXCEPT ![r] = "pSave"]
             /\ reqDoc' = [reqDoc EXCEPT ![r] = chat]
             /\ UNCHANGED reqRes
  /\ UNCHANGED <<reqMsg, storeVars, sockVars, ioVars, clientVars>>
  /\ UNCHANGED <<serverVars, uiVars, poolVars>>

(* the store applies chatMessage.save(); the job returns its result        *)
PostSave(r) ==
  /\ reqPc[r] = "pSave"
  /\ LET m == [id |-> Len(messages) + Len(Removed("message")) + 1,
               chat |-> reqDoc[r].id, user |-> reqMsg[r].userId,
               content |-> reqMsg[r].text, createdAt |-> Now]
         u == UserFindById(reqMsg[r].userId)
     IN /\ messages' = Append(messages, m)
        /\ reqRes' = [reqRes EXCEPT ![r] =
             [NoRes EXCEPT !.statusCode = 200,
                           !.chatMessage = MessageToClientObject(m, u),
                           !.user = UserToClientObject(u)]]
  /\ reqPc' = [reqPc EXCEPT ![r] = "reply"]
  /\ UNCHANGED <<chats, users, reqMsg, reqDoc, sockVars, ioVars, clientVars>>
  /\ UNCHANGED <<serverVars, uiVars, poolVars>>

(* the reply reaches the main process: the request is answered and the     *)
(* events are emitted to the chat room                                     *)
PostReply(r) ==
  /\ reqPc[r] = "reply"
  /\ reqMsg[r].op = "postChatMessage"
  /\ Emit(sockRoom, PostChatMessageEmits(r, reqMsg[r].chatId, reqRes[r]))
  /\ reqPc' = [reqPc EXCEPT ![r] = "done"]
  /\ UNCHANGED <<reqMsg, reqDoc, reqRes, storeVars, sockVars, clientVars>>
  /\ UNCHANGED <<serverVars, uiVars, poolVars>>

(* POST /api/chats/:chatId/typing: the job starts                          *)
PostChatUserTyping(r, chatId, userId) ==
  /\ NextToSend(r)
  /\ reqMsg' = [reqMsg EXCEPT ![r] =
       [op |-> "postChatUserTyping", chatId |-> chatId, userId |-> userId, text |-> ""]]
  /\ reqPc' = [reqPc EXCEPT ![r] = "tFindChat"]
  /\ UNCHANGED <<reqDoc, reqRes, storeVars, sockVars, ioVars, clientVars>>
  /\ UNCHANGED <<serverVars, uiVars, poolVars>>

(* Chat.findById resolved: 404 without the chat or without the user in     *)
(* chat.users, otherwise 204 with the user                                 *)
TypingChatFound(r) ==
  /\ reqPc[r] = "tFindChat"
  /\ LET chat == ChatFindById(reqMsg[r].chatId)
         user == ChatUsersFind(chat, reqMsg[r].userId)
     IN reqRes' = [reqRes EXCEPT ![r] =
          IF chat = NoChat \/ user = NoUser
          THEN [NoRes EXCEPT !.statusCode = 404]
          ELSE [NoRes EXCEPT !.statusCode = 204, !.user = UserToClientObject(user)]]
  /\ reqPc' = [reqPc EXCEPT ![r] = "reply"]
  /\ UNCHANGED <<reqMsg, reqDoc, storeVars, sockVars, ioVars, clientVars>>
  /\ UNCHANGED <<serverVars, uiVars, poolVars>>

(* the reply reaches the main process: answer, emit userStartedTyping      *)
TypingReply(r) ==
  /\ reqPc[r] = "reply"
  /\ reqMsg[r].op = "postChatUserTyping"
  /\ Emit(sockRoom, PostChatUserTypingEmits(r, reqMsg[r].chatId, reqRes[r]))
  /\ reqPc' = [reqPc EXCEPT ![r] = "done"]
  /\ UNCHANGED <<reqMsg, reqDoc, reqRes, storeVars, sockVars, clientVars>>
  /\ UNCHANGED <<serverVars, uiVars, poolVars>>

(* the requests clients send: <<chatId, userId, messageContent>>           *)
PostInputs == {<<1, 1, "hi">>, <<1, 2, "hi">>, <<1, 1, "">>, <<9, 1, "hi">>}
TypingInputs == {<<1, 1>>, <<1, 2>>, <<9, 1>>}

ChatRequestStep(r) ==
  \/ \E in \in PostInputs : PostChatMessage(r, in[1], in[2], in[3])
  \/ PostChatFound(r)
  \/ PostSave(r)
  \/ PostReply(r)
  \/ \E in \in TypingInputs : PostChatUserTyping(r, in[1], in[2])
  \/ TypingChatFound(r)
  \/ TypingReply(r)

(* registerUser: the job starts; an empty username is answered 400         *)
RegisterUser(r, username) ==
  /\ NextToSend(r)
  /\ reqMsg' = [reqMsg EXCEPT ![r] =
       [op |-> "registerUser", chatId |-> 0, userId |-> 0, text |-> username]]
  /\ IF username = ""
     THEN /\ reqPc' = [reqPc EXCEPT ![r] = "reply"]
          /\ reqRes' = [reqRes EXCEPT ![r] = [NoRes EXCEPT !.statusCode = 400]]
     ELSE /\ reqPc' = [reqPc EXCEPT ![r] = "rGetLatest"]
          /\ UNCHANGED reqRes
  /\ UNCHANGED <<reqDoc, storeVars, sockVars, ioVars, clientVars>>
  /\ UNCHANGED <<serverVars, uiVars, poolVars>>

(* User.getLatestUser(): findOne().sort({ createdAt: "desc" })             *)
getLatestUser == IF users = <<>> THEN NoUser ELSE users[Len(users)]

(* let tag = latestUser ? latestUser.tag + 1 : 1                           *)
NextTagAlwaysFirst(latestUser) == 1

NextTag(latestUser) == IF latestUser # NoUser THEN latestUser.tag + 1 ELSE 1

(* getLatestUser resolved: the new user is built with the next tag and     *)
(* user.save() is issued                                                   *)
RegisterLatestFound(r) ==
  /\ reqPc[r] = "rGetLatest"
  /\ LET latestUser == getLatestUser
         tag == NextTag(latestUser)
     IN reqDoc' = [reqDoc EXCEPT ![r] =
          [id |-> 0, name |-> reqMsg[r].text, tag |-> tag]]
  /\ reqPc' = [reqPc EXCEPT ![r] = "rSave"]
  /\ UNCHANGED <<reqMsg, reqRes, storeVars, sockVars, ioVars, clientVars>>
  /\ UNCHANGED <<serverVars, uiVars, poolVars>>

(* the store applies user.save(); the job returns the user                 *)
RegisterSave(r) ==
  /\ reqPc[r] = "rSave"
  /\ LET user == [reqDoc[r] EXCEPT !.id = Len(users) + 1]
     IN /\ users' = Append(users, user)
        /\ reqRes' = [reqRes EXCEPT ![r] =
             [NoRes EXCEPT !.statusCode = 200, !.user = UserToClientObject(user)]]
  /\ reqPc' = [reqPc EXCEPT ![r] = "reply"]
  /\ UNCHANGED <<chats, messages, reqMsg, reqDoc, sockVars, ioVars, clientVars>>
  /\ UNCHANGED <<serverVars, uiVars, poolVars>>

(* the reply reaches the main process: the request is answered             *)
RegisterReply(r) ==
  /\ reqPc[r] = "reply"
  /\ reqMsg[r].op = "registerUser"
  /\ reqPc' = [reqPc EXCEPT ![r] = "done"]
  /\ UNCHANGED <<reqMsg, reqDoc, reqRes, storeVars, sockVars, ioVars, clientVars>>
  /\ UNCHANGED <<serverVars, uiVars, poolVars>>

(* logInUser: the job starts; a missing or malformed userId is answered    *)
(* 400                                                                     *)
LogInUser(r, userId) ==
  /\ NextToSend(r)
  /\ reqMsg' = [reqMsg EXCEPT ![r] =
       [op |-> "logInUser", chatId |-> 0, userId |-> userId, text |-> ""]]
  /\ IF ~isValidObjectId(userId)
     THEN /\ reqPc' = [reqPc EXCEPT ![r] = "reply"]
          /\ reqRes' = [reqRes EXCEPT ![r] = [NoRes EXCEPT !.statusCode = 400]]
     ELSE /\ reqPc' = [reqPc EXCEPT ![r] = "lFindUser"]
          /\ UNCHANGED reqRes
  /\ UNCHANGED <<reqDoc, storeVars, sockVars, ioVars, clientVars>>
  /\ UNCHANGED <<serverVars, uiVars, poolVars>>

(* User.findById resolved: the job returns "User not found" or the user    *)
LogInUserFound(r) ==
  /\ reqPc[r] = "lFindUser"
  /\ LET user == UserFindById(reqMsg[r].userId)
     IN reqRes' = [reqRes EXCEPT ![r] =
          IF user = NoUser
          THEN [NoRes EXCEPT !.statusCode = 400]
          ELSE [NoRes EXCEPT !.statusCode = 200, !.user = UserToClientObject(user)]]
  /\ reqPc' = [reqPc EXCEPT ![r] = "reply"]
  /\ UNCHANGED <<reqMsg, reqDoc, storeVars, sockVars, ioVars, clientVars>>
  /\ UNCHANGED <<serverVars, uiVars, poolVars>>

(* the reply reaches the main process: the request is answered             *)
LogInReply(r) ==
  /\ reqPc[r] = "reply"
  /\ reqMsg[r].op = "logInUser"
  /\ reqPc' = [reqPc EXCEPT ![r] = "done"]
  /\ UNCHANGED <<reqMsg, reqDoc, reqRes, storeVars, sockVars, ioVars, clientVars>>
  /\ UNCHANGED <<serverVars, uiVars, poolVars>>

(* getChatMessages: the job starts; a missing or malformed chatId is       *)
(* answered 400                                                            *)
GetChatMessages(r, chatId) ==
  /\ NextToSend(r)
  /\ reqMsg' = [reqMsg EXCEPT ![r] =
       [op |-> "getChatMessages", chatId |-> chatId, userId |-> 0, text |-> ""]]
  /\ IF ~isValidObjectId(chatId)
     THEN /\ reqPc' = [reqPc EXCEPT ![r] = "reply"]
          /\ reqRes' = [reqRes EXCEPT ![r] = [NoRes EXCEPT !.statusCode = 400]]
     ELSE /\ reqPc' = [reqPc EXCEPT ![r] = "mFind"]
          /\ UNCHANGED reqRes
  /\ UNCHANGED <<reqDoc, storeVars, sockVars, ioVars, clientVars>>
  /\ UNCHANGED <<serverVars, uiVars, poolVars>>

(* Message.find({ chat: chatId }).populate("user")                         *)
MessageFindByChat(chatId) == SelectSeq(messages, LAMBDA m : m.chat = chatId)

(* Message.find resolved: the job returns the messages it found            *)
GetChatMessagesFound(r) ==
  /\ reqPc[r] = "mFind"
  /\ LET found == MessageFindByChat(reqMsg[r].chatId)
     IN reqRes' = [reqRes EXCEPT ![r] =
          [NoRes EXCEPT !.statusCode = 200,
                        !.list = [i \in 1..Len(found) |->
                           MessageToClientObject(found[i], UserFindById(found[i].user))]]]
  /\ reqPc' = [reqPc EXCEPT ![r] = "reply"]
  /\ UNCHANGED <<reqMsg, reqDoc, storeVars, sockVars, ioVars, clientVars>>
  /\ UNCHANGED <<serverVars, uiVars, poolVars>>

(* the reply reaches the main process: the request is answered             *)
GetChatMessagesReply(r) ==
  /\ reqPc[r] = "reply"
  /\ reqMsg[r].op = "getChatMessages"
  /\ reqPc' = [reqPc EXCEPT ![r] = "done"]
  /\ UNCHANGED <<reqMsg, reqDoc, reqRes, storeVars, sockVars, ioVars, clientVars>>
  /\ UNCHANGED <<serverVars, uiVars, poolVars>>

(* chat.toClientObject()                                                   *)
ChatToClientObject(c) == [id |-> c.id, name |-> c.name]

(* Chat.findOne({ name: chatName })                                        *)
ChatFindOneByName(name) ==
  IF \E i \in 1..Len(chats) : chats[i].name = name
  THEN chats[CHOOSE i \in 1..Len(chats) :
               chats[i].name = name /\ \A j \in 1..(i - 1) : chats[j].name # name]
  ELSE NoChat

(* createChat: the job starts; missing parameters are answered 400         *)
CreateChat(r, userId, chatName) ==
  /\ NextToSend(r)
  /\ reqMsg' = [reqMsg EXCEPT ![r] =
       [op |-> "createChat", chatId |-> 0, userId |-> userId, text |-> chatName]]
  /\ IF userId = 0 \/ chatName = ""
     THEN /\ reqPc' = [reqPc EXCEPT ![r] = "reply"]
          /\ reqRes' = [reqRes EXCEPT ![r] = [NoRes EXCEPT !.statusCode = 400]]
     ELSE /\ reqPc' = [reqPc EXCEPT ![r] = "kFindOne"]
          /\ UNCHANGED reqRes
  /\ UNCHANGED <<reqDoc, storeVars, sockVars, ioVars, clientVars>>
  /\ UNCHANGED <<serverVars, uiVars, poolVars>>

(* Chat.findOne resolved: 400 "Chat already exists" for an existing chat,  *)
(* otherwise User.findById is issued                                       *)
CreateNameLookedUp(r) ==
  /\ reqPc[r] = "kFindOne"
  /\ IF ChatFindOneByName(reqMsg[r].text) # NoChat
     THEN /\ reqPc' = [reqPc EXCEPT ![r] = "reply"]
          /\ reqRes' = [reqRes EXCEPT ![r] = [NoRes EXCEPT !.statusCode = 400]]
     ELSE /\ reqPc' = [reqPc EXCEPT ![r] = "kFindUser"]
          /\ UNCHANGED reqRes
  /\ UNCHANGED <<reqMsg, reqDoc, storeVars, sockVars, ioVars, clientVars>>
  /\ UNCHANGED <<serverVars, uiVars, poolVars>>

(* User.findById resolved: 404 without the user, otherwise the chat is     *)
(* built and chat.save() is issued                                         *)
CreateUserLookedUp(r) ==
  /\ reqPc[r] = "kFindUser"
  /\ IF UserFindById(reqMsg[r].userId) = NoUser
     THEN /\ reqPc' = [reqPc EXCEPT ![r] = "reply"]
          /\ reqRes' = [reqRes EXCEPT ![r] = [NoRes EXCEPT !.statusCode = 404]]
          /\ UNCHANGED reqDoc
     ELSE /\ reqPc' = [reqPc EXCEPT ![r] = "kSave"]
          /\ reqDoc' = [reqDoc EXCEPT ![r] = [NoChat EXCEPT !.name = reqMsg[r].text]]
          /\ UNCHANGED reqRes
  /\ UNCHANGED <<reqMsg, storeVars, sockVars, ioVars, clientVars>>
  /\ UNCHANGED <<serverVars, uiVars, poolVars>>

(* the store applies chat.save(); the job returns the chat                 *)
CreateSave(r) ==
  /\ reqPc[r] = "kSave"
  /\ LET chat == [reqDoc[r] EXCEPT !.id = Len(chats) + Len(Removed("chat")) + 1,
                                   !.createdAt = Now]
     IN /\ chats' = Append(chats, chat)
        /\ reqRes' = [reqRes EXCEPT ![r] =
             [NoRes EXCEPT !.statusCode = 200, !.chat = chat]]
  /\ reqPc' = [reqPc EXCEPT ![r] = "reply"]
  /\ UNCHANGED <<users, messages, reqMsg, reqDoc, sockVars, ioVars, clientVars>>
  /\ UNCHANGED <<serverVars, uiVars, poolVars>>

(* the emit of ChatRouteManager.createChat's then-callback                 *)
CreateChatEmitsToGeneral(r, res) ==
  IF res.chat # NoChat
  THEN <<Event("chatCreated", <<1>>, ChatToClientObject(res.chat), r)>> ELSE <<>>

CreateChatEmits(r, res) ==
  IF res.chat # NoChat
  THEN <<Event("chatCreated", <<>>, ChatToClientObject(res.chat), r)>> ELSE <<>>

(* the reply reaches the main process: answer, emit chatCreated            *)
CreateReply(r) ==
  /\ reqPc[r] = "reply"
  /\ reqMsg[r].op = "createChat"
  /\ Emit(sockRoom, CreateChatEmits(r, reqRes[r]))
  /\ reqPc' = [reqPc EXCEPT ![r] = "done"]
  /\ UNCHANGED <<reqMsg, reqDoc, reqRes, storeVars, sockVars, clientVars>>
  /\ UNCHANGED <<serverVars, uiVars, poolVars>>

(* the api requests clients send: username, <<userId, chatName>>           *)
RegisterInputs == {"alice", "bob", ""}
CreateInputs == {<<1, "room">>, <<1, "general-chat">>, <<1, "">>, <<9, "room">>}

ApiRequestStep(r) ==
  \/ \E in \in RegisterInputs : RegisterUser(r, in)
  \/ RegisterLatestFound(r)
  \/ RegisterSave(r)
  \/ RegisterReply(r)
  \/ \E in \in CreateInputs : CreateChat(r, in[1], in[2])
  \/ CreateNameLookedUp(r)
  \/ CreateUserLookedUp(r)
  \/ CreateSave(r)
  \/ CreateReply(r)

(* ------------------------ failing store operations -------------------- *)
(* chatMessage.save() rejects: the job's promise rejects and               *)
(* ThreadWorker.work sends { id, error } instead of { id, data }           *)
PostSaveNotAwaited(r) ==
  /\ reqPc[r] = "pSave"
  /\ LET m == [id |-> Len(messages) + Len(Removed("message")) + 1,
               chat |-> reqDoc[r].id, user |-> reqMsg[r].userId,
               content |-> reqMsg[r].text, createdAt |-> Now]
         u == UserFindById(reqMsg[r].userId)
     IN reqRes' = [reqRes EXCEPT ![r] =
          [NoRes EXCEPT !.statusCode = 200,
                        !.chatMessage = MessageToClientObject(m, u),
                        !.user = UserToClientObject(u)]]
  /\ reqPc' = [reqPc EXCEPT ![r] = "reply"]
  /\ UNCHANGED <<reqMsg, reqDoc, storeVars, sockVars, ioVars, clientVars, serverVars, uiVars, poolVars>>

PostSaveRejected(r) ==
  /\ reqPc[r] = "pSave"
  /\ reqPc' = [reqPc EXCEPT ![r] = "error"]
  /\ UNCHANGED <<reqMsg, reqDoc, reqRes, storeVars, sockVars, ioVars, clientVars, serverVars, uiVars, poolVars>>

(* chat.save() of the createChat job rejects                               *)
CreateSaveRejected(r) ==
  /\ reqPc[r] = "kSave"
  /\ reqPc' = [reqPc EXCEPT ![r] = "error"]
  /\ UNCHANGED <<reqMsg, reqDoc, reqRes, storeVars, sockVars, ioVars, clientVars, serverVars, uiVars, poolVars>>

(* MainWorkerPool.onMessage runs the callback with the error and the       *)
(* promise of send() rejects.  The route handlers chain only .then() on    *)
(* it: the then-callback does not run, so nothing is written to the        *)
(* response and nothing is emitted                                         *)
ReplyError(r) ==
  /\ reqPc[r] = "error"
  /\ reqPc' = [reqPc EXCEPT ![r] = "rejected"]
  /\ UNCHANGED <<reqMsg, reqDoc, reqRes, storeVars, sockVars, ioVars, clientVars, serverVars, uiVars, poolVars>>

StoreFailureStep(r) ==
  \/ PostSaveRejected(r)
  \/ CreateSaveRejected(r)
  \/ ReplyError(r)

(* ---------------------------- server startup -------------------------- *)
bootVars == <<bootPc, clearPc>>
sweepVars == <<swPc, swSince, swChats, swIdx, swCounting, swRemoving, removed>>

(* the server process starts; once connected to MongoDB it calls           *)
(* Chat.createGeneralChatIfNotExists(), whose findOne is issued, and       *)
(* Chat.clearChatsFromUsers(), whose updateMany is issued, and awaits both *)
Boot ==
  /\ bootPc = "down"
  /\ bootPc' = "gFindOne"
  /\ clearPc' = "pending"
  /\ UNCHANGED <<storeVars, sockVars, ioVars, reqVars, clientVars, sweepVars, uiVars, poolVars>>

(* findOne({ name: "general-chat" }) resolved: save a new chat if there is *)
(* none                                                                    *)
GeneralChatLookedUp ==
  /\ bootPc = "gFindOne"
  /\ bootPc' = IF ChatFindOneByName("general-chat") = NoChat THEN "gSave" ELSE "gDone"
  /\ UNCHANGED <<clearPc, storeVars, sockVars, ioVars, reqVars, clientVars, sweepVars, uiVars,
                 poolVars>>

(* the store applies generalChat.save()                                    *)
GeneralChatSaved ==
  /\ bootPc = "gSave"
  /\ chats' = Append(chats,
       [NoChat EXCEPT !.id = Len(chats) + Len(Removed("chat")) + 1,
                      !.name = "general-chat", !.createdAt = Now])
  /\ bootPc' = "gDone"
  /\ UNCHANGED <<clearPc, users, messages, sockVars, ioVars, reqVars, clientVars, sweepVars,
                 uiVars, poolVars>>

(* Chat.clearChatsFromUsers(): the store applies                           *)
(* updateMany({ users: { $ne: [] } }, { users: [] })                       *)
ChatsCleared ==
  /\ clearPc = "pending"
  /\ chats' = [i \in 1..Len(chats) |-> [chats[i] EXCEPT !.users = <<>>]]
  /\ clearPc' = "done"
  /\ UNCHANGED <<bootPc, users, messages, sockVars, ioVars, reqVars, clientVars, sweepVars,
                 uiVars, poolVars>>

(* await Promise.all([createGeneralChatIfNotExists(),                      *)
(* clearChatsFromUsers()]) has resolved                                    *)
StartupNotAwaited == bootPc \in {"gFindOne", "gSave", "gDone"}

StartupAwaited == bootPc = "gDone" /\ clearPc = "done"

(* the run of the sweep that was called last                               *)
LastRun == CHOOSE w \in Runs : swPc[w] # "idle" /\ \A q \in Runs : q > w => swPc[q] = "idle"

(* the routes are registered, the http server is created and socket.io is  *)
(* attached to it; now is read and the first run of the sweep is called    *)
(* with twoWeeksAgo = new Date(now - twoWeeksInMilliSeconds)               *)
SweepCallAtStartup(w) ==
  /\ StartupAwaited
  /\ swPc[w] = "idle"
  /\ \A q \in 1..(w - 1) : swPc[q] = "returned"
  /\ bootPc' = "sweep"
  /\ swPc' = [swPc EXCEPT ![w] = "find"]
  /\ swSince' = [swSince EXCEPT ![w] = Now - twoWeeksInMilliSeconds]
  /\ UNCHANGED <<clearPc, swChats, swIdx, swCounting, swRemoving, removed>>
  /\ UNCHANGED <<storeVars, sockVars, ioVars, reqVars, clientVars, uiVars, poolVars>>

(* the first run has returned: setInterval is called and the server        *)
(* listens                                                                 *)
Listen ==
  /\ bootPc = "sweep"
  /\ swPc[LastRun] = "returned"
  /\ bootPc' = "up"
  /\ UNCHANGED <<clearPc, storeVars, sockVars, ioVars, reqVars, clientVars, sweepVars, uiVars,
                 poolVars>>

(* the callback of setInterval: this.deleteMessagesAndUnusedChatsSince()   *)
(* is called without an argument, sinceDate is undefined                   *)
Undefined == -1

SweepCallByInterval(w) ==
  /\ bootPc = "up"
  /\ swPc[w] = "idle"
  /\ \A q \in 1..(w - 1) : swPc[q] = "returned"
  /\ swPc' = [swPc EXCEPT ![w] = "find"]
  /\ swSince' = [swSince EXCEPT ![w] = Undefined]
  /\ UNCHANGED <<swChats, swIdx, swCounting, swRemoving, removed>>
  /\ UNCHANGED <<storeVars, sockVars, ioVars, reqVars, clientVars, bootVars, uiVars, poolVars>>

(* the server process is stopped, to be started again                      *)
Shutdown ==
  /\ bootPc = "up"
  /\ bootPc' = "down"
  /\ clearPc' = "idle"
  /\ UNCHANGED <<storeVars, sockVars, ioVars, reqVars, clientVars, sweepVars, uiVars, poolVars>>

StartupStep ==
  \/ Boot
  \/ GeneralChatLookedUp
  \/ GeneralChatSaved
  \/ ChatsCleared
  \/ \E w \in Runs : SweepCallAtStartup(w)
  \/ Listen
  \/ Shutdown

(* --------------- Server.deleteMessagesAndUnusedChatsSince -------------- *)
(* if (chat.name === "general-chat") continue                              *)
SweepSkipsNoChat(chat) == FALSE

SweepSkips(chat) == chat.name = "general-chat"

(* a run is called, the next one not before the previous one has returned: *)
(* sinceDate is computed and Chat.find() is issued                         *)
SweepCall(w) ==
  /\ bootPc # "down"
  /\ swPc[w] = "idle"
  /\ \A q \in 1..(w - 1) : swPc[q] = "returned"
  /\ swPc' = [swPc EXCEPT ![w] = "find"]
  /\ swSince' = [swSince EXCEPT ![w] = Now - twoWeeksInMilliSeconds]
  /\ UNCHANGED <<swChats, swIdx, swCounting, swRemoving, removed>>
  /\ UNCHANGED <<storeVars, sockVars, ioVars, reqVars, clientVars, bootVars, uiVars, poolVars>>

(* Chat.find() resolved: the loop starts with the deleteMany of the first  *)
(* chat, or the function returns                                           *)
SweepFound(w) ==
  /\ swPc[w] = "find"
  /\ swChats' = [swChats EXCEPT ![w] = chats]
  /\ swIdx' = [swIdx EXCEPT ![w] = 1]
  /\ swPc' = [swPc EXCEPT ![w] = IF chats = <<>> THEN "returned" ELSE "deleteMany"]
  /\ UNCHANGED <<swSince, swCounting, swRemoving, removed>>
  /\ UNCHANGED <<storeVars, sockVars, ioVars, reqVars, clientVars, bootVars, uiVars, poolVars>>

(* Message.deleteMany({ chat, createdAt: { $lte: sinceDate } }): no        *)
(* createdAt compares with an undefined sinceDate                          *)
IsOldMessageOf(m, chat, sinceDate) ==
  sinceDate # Undefined /\ m.chat = chat.id /\ m.createdAt <= sinceDate

RemovedBy(kind, docs, w) ==
  [i \in 1..Len(docs) |-> [kind |-> kind, doc |-> docs[i], run |-> w]]

(* the store applies the deleteMany of the current chat and answers        *)
(* ok = 1; unless the chat is general-chat its countDocuments is issued    *)
(* without being awaited; the loop goes on to the next chat or the         *)
(* function returns                                                        *)
SweepDeleteMany(w) ==
  /\ swPc[w] = "deleteMany"
  /\ LET chat == swChats[w][swIdx[w]]
     IN /\ messages' =
             SelectSeq(messages, LAMBDA m : ~IsOldMessageOf(m, chat, swSince[w]))
        /\ removed' = removed \o
             RemovedBy("message",
               SelectSeq(messages, LAMBDA m : IsOldMessageOf(m, chat, swSince[w])), w)
        /\ swCounting' = [swCounting EXCEPT ![w] =
             IF SweepSkips(chat) THEN @ ELSE @ \cup {chat}]
  /\ swIdx' = [swIdx EXCEPT ![w] = @ + 1]
  /\ swPc' = [swPc EXCEPT ![w] =
       IF swIdx[w] = Len(swChats[w]) THEN "returned" ELSE "deleteMany"]
  /\ UNCHANGED <<swSince, swChats, swRemoving>>
  /\ UNCHANGED <<chats, users, sockVars, ioVars, reqVars, clientVars, bootVars, uiVars, poolVars>>

(* Message.countDocuments({ chat: chat.id })                               *)
countDocuments(chat) == Len(SelectSeq(messages, LAMBDA m : m.chat = chat.id))

(* countDocuments of a chat resolved: chat.remove() is issued if no        *)
(* message is left and the chat was not created after sinceDate; with an   *)
(* undefined sinceDate sinceDate.getTime() throws and nothing is issued    *)
SweepCounted(w, chat) ==
  /\ chat \in swCounting[w]
  /\ swCounting' = [swCounting EXCEPT ![w] = @ \ {chat}]
  /\ swRemoving' = [swRemoving EXCEPT ![w] =
       IF countDocuments(chat) > 0 \/ swSince[w] = Undefined \/ chat.createdAt > swSince[w]
       THEN @ ELSE @ \cup {chat}]
  /\ UNCHANGED <<swPc, swSince, swChats, swIdx, removed>>
  /\ UNCHANGED <<storeVars, sockVars, ioVars, reqVars, clientVars, bootVars, uiVars, poolVars>>

(* the store applies chat.remove(): the document with the chat's _id is    *)
(* deleted if it is still there                                            *)
SweepRemoved(w, chat) ==
  /\ chat \in swRemoving[w]
  /\ swRemoving' = [swRemoving EXCEPT ![w] = @ \ {chat}]
  /\ chats' = SelectSeq(chats, LAMBDA c : c.id # chat.id)
  /\ removed' = removed \o
       RemovedBy("chat", SelectSeq(chats, LAMBDA c : c.id = chat.id), w)
  /\ UNCHANGED <<swPc, swSince, swChats, swIdx, swCounting>>
  /\ UNCHANGED <<users, messages, sockVars, ioVars, reqVars, clientVars, bootVars, uiVars, poolVars>>

SweepBody(w) ==
  \/ SweepFound(w)
  \/ SweepDeleteMany(w)
  \/ \E chat \in swCounting[w] : SweepCounted(w, chat)
  \/ \E chat \in swRemoving[w] : SweepRemoved(w, chat)

SweepStep(w) == SweepCall(w) \/ SweepBody(w)

(* ------------------ client worker (public/js/worker.js) ---------------- *)
(* typingUsersWithTimeout.findIndex(el => el.user.id === userId)           *)
findTypingUserIndexById(tw, userId) ==
  IF \E i \in 1..Len(tw) : tw[i].user.id = userId
  THEN CHOOSE i \in 1..Len(tw) :
         tw[i].user.id = userId /\ \A j \in 1..(i - 1) : tw[j].user.id # userId
  ELSE 0

(* typingUsersWithTimeout.map(el => el.user)                               *)
getTypingUsers(tw) == [i \in 1..Len(tw) |-> tw[i].user]

Posted(event, data) == [event |-> event, data |-> data]

(* the socket's next event is taken from the connection                    *)
Receives(s, name) == inbox[s] # <<>> /\ Head(inbox[s]).name = name

Consume(s) ==
  /\ received' = [received EXCEPT ![s] = Append(@, Head(inbox[s]))]
  /\ inbox' = [inbox EXCEPT ![s] = Tail(@)]

(* socket.on("messagePosted")                                              *)
ClientMessagePosted(s) ==
  /\ Receives(s, "messagePosted")
  /\ Consume(s)
  /\ posted' = [posted EXCEPT ![s] =
       Append(@, Posted("messagePosted", Head(inbox[s]).payload))]
  /\ UNCHANGED <<typing, timers, nextTimer, emitted, storeVars, sockVars, reqVars, memoryVars>>
  /\ UNCHANGED <<serverVars, uiVars, poolVars>>

(* the test of userStartedTyping: the user is in the list already          *)
AlreadyTypingNever(tw, user) == FALSE

AlreadyTyping(tw, user) == findTypingUserIndexById(tw, user.id) > 0

(* clearTimeout(timeout): the timeout is not pending any longer            *)
clearTimeoutForgotten(pending, timeout) == pending

clearTimeout(pending, timeout) == {t \in pending : t.id # timeout}

(* setTimeout(callback, 10e3): a timeout of the user is pending            *)
setTimeoutNotScheduled(pending, id, userId) == pending

setTimeout(pending, id, userId) == pending \cup {[id |-> id, user |-> userId]}

(* if (userId === user.id) return: the user is the one the client          *)
(* connected as                                                            *)
IsCurrentUserNever(s, user) == FALSE

IsCurrentUser(s, user) == sockHs[s][2] = user.id

(* socket.on("userStartedTyping")                                          *)
ClientUserStartedTyping(s) ==
  /\ Receives(s, "userStartedTyping")
  /\ Consume(s)
  /\ LET user == Head(inbox[s]).payload
     IN IF IsCurrentUser(s, user) \/ AlreadyTyping(typing[s], user)
        THEN UNCHANGED <<typing, timers, nextTimer, posted>>
        ELSE /\ typing' = [typing EXCEPT ![s] =
                  Append(@, [user |-> user, timeout |-> nextTimer[s]])]
             /\ timers' = [timers EXCEPT ![s] = setTimeout(@, nextTimer[s], user.id)]
             /\ nextTimer' = [nextTimer EXCEPT ![s] = @ + 1]
             /\ posted' = [posted EXCEPT ![s] =
                  Append(@, Posted("userTyping", getTypingUsers(typing'[s])))]
  /\ UNCHANGED <<emitted, storeVars, sockVars, reqVars, memoryVars>>
  /\ UNCHANGED <<serverVars, uiVars, poolVars>>

(* the setTimeout callback of a typing entry fires after 10 s              *)
TypingTimeout(s, t) ==
  /\ t \in timers[s]
  /\ timers' = [timers EXCEPT ![s] = @ \ {t}]
  /\ LET i == findTypingUserIndexById(typing[s], t.user)
     IN IF i = 0
        THEN UNCHANGED <<typing, posted>>
        ELSE /\ typing' = [typing EXCEPT ![s] = splice(@, i)]
             /\ posted' = [posted EXCEPT ![s] =
                  Append(@, Posted("userTyping", getTypingUsers(typing'[s])))]
  /\ UNCHANGED <<received, nextTimer, ioVars, storeVars, sockVars, reqVars, memoryVars>>
  /\ UNCHANGED <<serverVars, uiVars, poolVars>>

(* socket.on("userStoppedTyping")                                          *)
ClientUserStoppedTyping(s) ==
  /\ Receives(s, "userStoppedTyping")
  /\ Consume(s)
  /\ LET user == Head(inbox[s]).payload
         i == findTypingUserIndexById(typing[s], user.id)
     IN IF i = 0
        THEN UNCHANGED <<typing, timers, posted>>
        ELSE /\ typing' = [typing EXCEPT ![s] = splice(@, i)]
             /\ timers' = [timers EXCEPT ![s] =
                  clearTimeout(@, typing[s][i].timeout)]
             /\ posted' = [posted EXCEPT ![s] =
                  Append(@, Posted("userTyping", getTypingUsers(typing'[s])))]
  /\ UNCHANGED <<nextTimer, emitted, storeVars, sockVars, reqVars, memoryVars>>
  /\ UNCHANGED <<serverVars, uiVars, poolVars>>

ClientStep(s) ==
  \/ ClientMessagePosted(s)
  \/ ClientUserStartedTyping(s)
  \/ ClientUserStoppedTyping(s)
  \/ \E t \in timers[s] : TypingTimeout(s, t)

(* --------- the users of the chat in the client (worker.js) ------------- *)
(* the UTF-16 code units of the names used                                 *)
CodeUnits(name) ==
  CASE name = "al" -> <<97, 108>>
    [] name = "bob" -> <<98, 111, 98>>
    [] name = "Bob" -> <<66, 111, 98>>
    [] name = "Cy" -> <<67, 121>>
    [] OTHER -> <<>>

(* String.prototype.toLowerCase()                                          *)
toLowerCaseNothing(codes) == codes

toLowerCase(codes) ==
  [i \in 1..Len(codes) |-> IF codes[i] \in 65..90 THEN codes[i] + 32 ELSE codes[i]]

(* a < b on strings: the first code unit that differs decides, a proper    *)
(* prefix is smaller                                                       *)
StringLess(a, b) ==
  \E k \in 1..(Len(a) + 1) :
    /\ k <= Len(b)
    /\ \A j \in 1..(k - 1) : a[j] = b[j]
    /\ (k = Len(a) + 1 \/ a[k] < b[k])

sortByNameAndTag(a, b) ==
  LET aName == toLowerCase(CodeUnits(a.name))
      bName == toLowerCase(CodeUnits(b.name))
  IN IF StringLess(aName, bName) THEN -1
     ELSE IF StringLess(bName, aName) THEN 1
     ELSE IF a.tag < b.tag THEN -1
     ELSE IF a.tag > b.tag THEN 1
     ELSE 0

(* Array.prototype.sort(compareFn): a permutation of the array that is in  *)
(* the order of compareFn; the order of elements that compare equal is     *)
(* left to the engine                                                      *)
IndexPermutations(n) == {f \in [1..n -> 1..n] : \A i, j \in 1..n : i # j => f[i] # f[j]}

sort(list) ==
  {p \in {[i \in 1..Len(list) |-> list[f[i]]] : f \in IndexPermutations(Len(list))} :
     \A i, j \in 1..Len(p) : i < j => sortByNameAndTag(p[i], p[j]) <= 0}

(* chatUsers.findIndex(el => el.id === userId), counted from 0, -1 if none *)
findChatUserIndexById(us, userId) ==
  IF \E i \in 1..Len(us) : us[i].id = userId
  THEN (CHOOSE i \in 1..Len(us) : us[i].id = userId /\ \A j \in 1..(i - 1) : us[j].id # userId) - 1
  ELSE -1

(* the test of userConnected: the user is in the list already              *)
IsChatUserNever(us, user) == FALSE

IsChatUser(us, user) == findChatUserIndexById(us, user.id) > -1

(* socket.on("userConnected"): nextUser is undefined (NoUser) for the last *)
(* user of the list                                                        *)
WorkerUserConnected(s, user) ==
  /\ received' = [received EXCEPT ![s] = Append(@, Event("userConnected", <<>>, user, 0))]
  /\ IF IsChatUser(chatUsers, user)
     THEN UNCHANGED <<chatUsers, posted>>
     ELSE \E sorted \in sort(Append(chatUsers, user)) :
            LET userIndex == findChatUserIndexById(sorted, user.id)
                nextUser == IF userIndex > -1 /\ userIndex + 2 <= Len(sorted)
                            THEN sorted[userIndex + 2] ELSE NoUser
            IN /\ chatUsers' = sorted
               /\ posted' = [posted EXCEPT ![s] =
                    Append(@, Posted("userConnected",
                                     [user |-> user, nextUser |-> nextUser]))]
  /\ UNCHANGED <<typing, timers, nextTimer, appUsers, appTypingUsers>>
  /\ UNCHANGED <<storeVars, sockVars, ioVars, reqVars, serverVars, uiVars, poolVars>>

(* socket.on("userDisconnected")                                           *)
WorkerUserDisconnected(s, user) ==
  /\ received' = [received EXCEPT ![s] = Append(@, Event("userDisconnected", <<>>, user, 0))]
  /\ LET userIndex == findChatUserIndexById(chatUsers, user.id)
     IN chatUsers' = IF userIndex > -1 THEN splice(chatUsers, userIndex + 1) ELSE chatUsers
  /\ posted' = [posted EXCEPT ![s] = Append(@, Posted("userDisconnected", user))]
  /\ UNCHANGED <<typing, timers, nextTimer, appUsers, appTypingUsers>>
  /\ UNCHANGED <<storeVars, sockVars, ioVars, reqVars, serverVars, uiVars, poolVars>>

(* ------------- the App state class of the client (App.js) -------------- *)
(* array.splice(start, 1) with start counted from 0: a negative start      *)
(* counts from the end of the array                                        *)
spliceOne(list, start) ==
  LET len == Len(list)
      from == IF start < 0
              THEN (IF len + start < 0 THEN 0 ELSE len + start)
              ELSE (IF start > len THEN len ELSE start)
  IN IF from < len
     THEN [rest |-> splice(list, from + 1), removed |-> <<list[from + 1]>>]
     ELSE [rest |-> list, removed |-> <<>>]

(* removeUserById(userId): this.users.splice(this.findUserIndexById(userId), 1) *)
removeUserById(us, userId) == spliceOne(us, findChatUserIndexById(us, userId))

(* removeTypingUserById(typingUserId) looks for typingUserId.id: the       *)
(* handlers pass user.id, a string, whose property id is undefined         *)
IdOfId(userId) == Undefined

removeTypingUserById(tw, typingUserId) ==
  spliceOne(tw, findTypingUserIndexById(tw, IdOfId(typingUserId)) - 1)

(* socket.on("userConnected"): addUser, sortUsers, findNextUser            *)
AppUserConnected(s, user) ==
  /\ received' = [received EXCEPT ![s] = Append(@, Event("userConnected", <<>>, user, 0))]
  /\ \E sorted \in sort(Append(appUsers, user)) :
       LET userIndex == findChatUserIndexById(sorted, user.id)
           nextUser == IF userIndex > -1 /\ userIndex + 2 <= Len(sorted)
                       THEN sorted[userIndex + 2] ELSE NoUser
       IN /\ appUsers' = sorted
          /\ posted' = [posted EXCEPT ![s] =
               Append(@, Posted("userConnected", [user |-> user, nextUser |-> nextUser]))]
  /\ UNCHANGED <<typing, timers, nextTimer, chatUsers, appTypingUsers>>
  /\ UNCHANGED <<storeVars, sockVars, ioVars, reqVars, serverVars, uiVars, poolVars>>

(* socket.on("userDisconnected"): removeUserById(user.id)                  *)
AppUserDisconnected(s, user) ==
  /\ received' = [received EXCEPT ![s] = Append(@, Event("userDisconnected", <<>>, user, 0))]
  /\ appUsers' = removeUserById(appUsers, user.id).rest
  /\ posted' = [posted EXCEPT ![s] = Append(@, Posted("userDisconnected", user))]
  /\ UNCHANGED <<typing, timers, nextTimer, chatUsers, appTypingUsers>>
  /\ UNCHANGED <<storeVars, sockVars, ioVars, reqVars, serverVars, uiVars, poolVars>>

(* socket.on("userStartedTyping"): unless the user is the current one a    *)
(* TypingUser with a new timeout is added                                  *)
AppUserStartedTyping(s, user) ==
  /\ received' = [received EXCEPT ![s] = Append(@, Event("userStartedTyping", <<>>, user, 0))]
  /\ IF IsCurrentUser(s, user)
     THEN UNCHANGED <<appTypingUsers, timers, nextTimer, posted>>
     ELSE /\ appTypingUsers' = Append(appTypingUsers, [user |-> user, timeout |-> nextTimer[s]])
          /\ timers' = [timers EXCEPT ![s] = setTimeout(@, nextTimer[s], user.id)]
          /\ nextTimer' = [nextTimer EXCEPT ![s] = @ + 1]
          /\ posted' = [posted EXCEPT ![s] =
               Append(@, Posted("userTyping", getTypingUsers(appTypingUsers')))]
  /\ UNCHANGED <<typing, chatUsers, appUsers>>
  /\ UNCHANGED <<storeVars, sockVars, ioVars, reqVars, serverVars, uiVars, poolVars>>

(* socket.on("userStoppedTyping"): removeTypingUserById(user.id), and      *)
(* clearTimeout of the entry that was removed                              *)
AppUserStoppedTyping(s, user) ==
  /\ received' = [received EXCEPT ![s] = Append(@, Event("userStoppedTyping", <<>>, user, 0))]
  /\ IF IsCurrentUser(s, user)
     THEN UNCHANGED <<appTypingUsers, timers, posted>>
     ELSE LET taken == removeTypingUserById(appTypingUsers, user.id)
          IN /\ appTypingUsers' = taken.rest
             /\ timers' = [timers EXCEPT ![s] =
                  IF taken.removed # <<>>
                  THEN clearTimeout(@, taken.removed[1].timeout) ELSE @]
             /\ posted' = [posted EXCEPT ![s] =
                  Append(@, Posted("userTyping", getTypingUsers(appTypingUsers')))]
  /\ UNCHANGED <<typing, nextTimer, chatUsers, appUsers>>
  /\ UNCHANGED <<storeVars, sockVars, ioVars, reqVars, serverVars, uiVars, poolVars>>

(* the setTimeout callback of a TypingUser fires after 10 s:               *)
(* removeTypingUserById(user.id)                                           *)
AppTypingTimeout(s, t) ==
  /\ t \in timers[s]
  /\ timers' = [timers EXCEPT ![s] = @ \ {t}]
  /\ appTypingUsers' = removeTypingUserById(appTypingUsers, t.user).rest
  /\ posted' = [posted EXCEPT ![s] =
       Append(@, Posted("userTyping", getTypingUsers(appTypingUsers')))]
  /\ UNCHANGED <<received, typing, nextTimer, chatUsers, appUsers>>
  /\ UNCHANGED <<storeVars, sockVars, ioVars, reqVars, serverVars, uiVars, poolVars>>

(* ------------- MessageFieldUi (ui-components/MessageFieldUi.js) -------- *)
(* a span with the text `${name} #${tag}` and a text node                  *)
Span(u) == [span |-> <<u.name, u.tag>>]
TextNode(s) == [text |-> s]

(* else if (typingUsers.length <= 3), after the test for 1                 *)
FewTypingUpToTwo(n) == n <= 2

FewTyping(n) == n <= 3

(* the loop over typingUsers.entries(): a span per user and a comma        *)
(* between two of them                                                     *)
CommaJoined(us) ==
  [i \in 1..(2 * Len(us) - 1) |->
     IF i % 2 = 1 THEN Span(us[(i + 1) \div 2]) ELSE TextNode(", ")]

(* drawTypingUsers(typingUsers): the indicator and the array afterwards;   *)
(* typingUsers.splice(-1, 1) takes the last user out of the array          *)
drawTypingUsers(typingUsers) ==
  LET n == Len(typingUsers)
  IN IF n = 0
     THEN [hidden |-> TRUE, nodes |-> <<>>, arg |-> typingUsers]
     ELSE IF n = 1
     THEN [hidden |-> FALSE,
           nodes |-> <<Span(typingUsers[1]), TextNode(" is typing...")>>,
           arg |-> typingUsers]
     ELSE IF FewTyping(n)
     THEN [hidden |-> FALSE,
           nodes |-> CommaJoined(SubSeq(typingUsers, 1, n - 1))
                      \o <<TextNode(" and "), Span(typingUsers[n]),
                            TextNode(" are typing...")>>,
           arg |-> SubSeq(typingUsers, 1, n - 1)]
     ELSE [hidden |-> FALSE,
           nodes |-> <<TextNode("Several people are typing...")>>,
           arg |-> typingUsers]

(* the ui draws the list it was handed                                     *)
DrawTypingUsers ==
  /\ uiTyping.calls = 0
  /\ LET drawn == drawTypingUsers(uiArg)
     IN /\ uiTyping' = [hidden |-> drawn.hidden, nodes |-> drawn.nodes,
                        of |-> uiArg, calls |-> uiTyping.calls + 1]
        /\ uiArg' = drawn.arg
  /\ UNCHANGED <<storeVars, sockVars, ioVars, reqVars, clientVars, serverVars, poolVars>>

(* -------------- worker pool (workers/main/MainWorkerPool.js) ----------- *)
(* const numCPUs = require("os").cpus().length || 1                        *)
numCPUs == 2

Workers == 1..numCPUs

(* const SCHED_DEFAULT = 1; const SCHED_RR = 2                             *)
SCHED_DEFAULT == 1
SCHED_RR == 2

(* the ops with a registered job, and the ops of the messages sent         *)
JobOps == {"registerUser"}
SentOps == {"registerUser", "noSuchOp"}

NoPromise == [id |-> -1, state |-> "none", value |-> <<>>, fnCalls |-> 0]

(* this.callbacks.findIndex(callback => callback.id === id)                *)
findCallbackIndexFirst(cbs, id) == IF cbs = <<>> THEN 0 ELSE 1

findCallbackIndex(cbs, id) ==
  IF \E i \in 1..Len(cbs) : cbs[i].id = id
  THEN CHOOSE i \in 1..Len(cbs) : cbs[i].id = id /\ \A j \in 1..(i - 1) : cbs[j].id # id
  ELSE 0

(* getAvailableWorker(): the first worker that is not busy, or none (0)    *)
getAvailableWorkerLast ==
  IF \E w \in Workers : ~busy[w]
  THEN CHOOSE w \in Workers : ~busy[w] /\ \A q \in (w + 1)..numCPUs : busy[q]
  ELSE 0

getAvailableWorker ==
  IF \E w \in Workers : ~busy[w]
  THEN CHOOSE w \in Workers : ~busy[w] /\ \A q \in 1..(w - 1) : busy[q]
  ELSE 0

(* send(message): a worker is picked, the id is generated, the callback is *)
(* pushed and the message is sent                                          *)
PoolSend(r, op) ==
  /\ promises[r].state = "none"
  /\ \A q \in 1..(r - 1) : promises[q].state # "none"
  /\ LET available == IF schedulingPolicy = SCHED_DEFAULT THEN getAvailableWorker ELSE 0
         worker == IF available # 0 THEN available ELSE rrNext
         id == poolId
     IN /\ rrNext' = IF available # 0 THEN rrNext ELSE (rrNext % numCPUs) + 1
        /\ sentTo' = Append(sentTo, worker)
        /\ poolId' = poolId + 1
        /\ callbacks' = Append(callbacks, [id |-> id, call |-> r])
        /\ promises' = [promises EXCEPT ![r] = [NoPromise EXCEPT !.id = id, !.state = "pending"]]
        /\ busy' = [busy EXCEPT ![worker] = TRUE]
        /\ toWorker' = [toWorker EXCEPT ![worker] = Append(@, [id |-> id, op |-> op])]
  /\ UNCHANGED <<running, toMain, replies, schedulingPolicy>>
  /\ UNCHANGED <<storeVars, sockVars, ioVars, reqVars, clientVars, serverVars, uiVars>>

(* a child process sends a message that no call of work has produced       *)
PoolStrayReply(w, id) ==
  /\ \A i \in 1..Len(replies) : ~replies[i].stray
  /\ LET m == [id |-> id, kind |-> "data", payload |-> <<"stray", id>>]
     IN /\ toMain' = [toMain EXCEPT ![w] = Append(@, m)]
        /\ replies' = Append(replies, [id |-> id, kind |-> "data", how |-> "stray",
                                        stray |-> TRUE])
  /\ UNCHANGED <<poolId, callbacks, promises, busy, rrNext, toWorker, running>>
  /\ UNCHANGED <<schedulingPolicy, sentTo>>
  /\ UNCHANGED <<storeVars, sockVars, ioVars, reqVars, clientVars, serverVars, uiVars>>

(* onMessage(message, worker): under the default policy the worker is     *)
(* available again; the callback                                           *)
(* with the id of the message is removed and run: it rejects the promise   *)
(* if the message has an error and resolves it with the data otherwise     *)
PoolOnMessage(w) ==
  /\ toMain[w] # <<>>
  /\ toMain' = [toMain EXCEPT ![w] = Tail(@)]
  /\ busy' = IF schedulingPolicy = SCHED_DEFAULT THEN [busy EXCEPT ![w] = FALSE] ELSE busy
  /\ LET message == Head(toMain[w])
         callbackIndex == findCallbackIndex(callbacks, message.id)
     IN IF callbackIndex = 0
        THEN UNCHANGED <<callbacks, promises>>
        ELSE LET r == callbacks[callbackIndex].call
             IN /\ callbacks' = splice(callbacks, callbackIndex)
                /\ promises' = [promises EXCEPT ![r] =
                     IF @.state = "pending"
                     THEN [@ EXCEPT !.state = IF message.kind = "error"
                                               THEN "rejected" ELSE "resolved",
                                    !.value = message.payload,
                                    !.fnCalls = @ + 1]
                     ELSE [@ EXCEPT !.fnCalls = @ + 1]]
  /\ UNCHANGED <<poolId, rrNext, toWorker, running, replies, schedulingPolicy, sentTo>>
  /\ UNCHANGED <<storeVars, sockVars, ioVars, reqVars, clientVars, serverVars, uiVars>>

(* ---------------- ThreadWorker (workers/main/MainWorker.js) ------------ *)
(* what the callback of a job does: it returns a value, it throws, or it   *)
(* returns a promise that resolves or rejects later                        *)
SyncOutcomes == {"returns", "throws", "pending"}
AsyncOutcomes == {"resolves", "rejects"}

(* the messages work sends for a job that ended in the way `how`: the      *)
(* error of job.callback without a job is thrown inside the try block      *)
WorkRepliesOutsideTry(id, how) ==
  IF how \in {"returns", "resolves"}
  THEN <<[id |-> id, kind |-> "data", payload |-> <<"data", id>>]>>
  ELSE IF how = "noJob" THEN <<>>
  ELSE <<[id |-> id, kind |-> "error", payload |-> <<how, id>>]>>

WorkReplies(id, how) ==
  IF how \in {"returns", "resolves"}
  THEN <<[id |-> id, kind |-> "data", payload |-> <<"data", id>>]>>
  ELSE <<[id |-> id, kind |-> "error", payload |-> <<how, id>>]>>

ProcessSend(w, id, how) ==
  /\ toMain' = [toMain EXCEPT ![w] = @ \o WorkReplies(id, how)]
  /\ replies' = replies \o
       [i \in 1..Len(WorkReplies(id, how)) |->
          [id |-> id, kind |-> WorkReplies(id, how)[i].kind, how |-> how,
           stray |-> FALSE]]

(* onMessage(message) -> work(op, message): the job is looked up and its   *)
(* callback is called                                                      *)
WorkerOnMessage(w, outcome) ==
  /\ toWorker[w] # <<>>
  /\ toWorker' = [toWorker EXCEPT ![w] = Tail(@)]
  /\ LET message == Head(toWorker[w])
     IN IF message.op \notin JobOps
        THEN ProcessSend(w, message.id, "noJob") /\ UNCHANGED running
        ELSE IF outcome = "pending"
        THEN /\ running' = running \cup {[id |-> message.id, worker |-> w]}
             /\ UNCHANGED <<toMain, replies>>
        ELSE ProcessSend(w, message.id, outcome) /\ UNCHANGED running
  /\ UNCHANGED <<poolId, callbacks, promises, busy, rrNext, schedulingPolicy, sentTo>>
  /\ UNCHANGED <<storeVars, sockVars, ioVars, reqVars, clientVars, serverVars, uiVars>>

(* Promise.resolve(result).then(...).catch(...): the promise of the job    *)
(* has settled                                                             *)
JobSettled(j, outcome) ==
  /\ j \in running
  /\ running' = running \ {j}
  /\ ProcessSend(j.worker, j.id, outcome)
  /\ UNCHANGED <<poolId, callbacks, promises, busy, rrNext, toWorker>>
  /\ UNCHANGED <<schedulingPolicy, sentTo>>
  /\ UNCHANGED <<storeVars, sockVars, ioVars, reqVars, clientVars, serverVars, uiVars>>

(* --------------------------- specification ----------------------------- *)
InitStore ==
  /\ chats = <<[id |-> 1, name |-> "general-chat", users |-> <<>>, v |-> 0,
                createdAt |-> 1]>>
  /\ users = <<[id |-> 1, name |-> "alice", tag |-> 1],
               [id |-> 2, name |-> "bob", tag |-> 2]>>
  /\ messages = <<>>

InitSockets ==
  /\ sockPc = [s \in Sockets |-> "new"]
  /\ sockHs = [s \in Sockets |-> <<0, 0>>]
  /\ sockOpen = [s \in Sockets |-> FALSE]
  /\ sockRoom = [s \in Sockets |-> 0]
  /\ sockChat = [s \in Sockets |-> NoChat]
  /\ emitted = <<>>
  /\ inbox = [s \in Sockets |-> <<>>]

InitReqs ==
  /\ reqPc = [r \in Reqs |-> "idle"]
  /\ reqMsg = [r \in Reqs |-> [op |-> "", chatId |-> 0, userId |-> 0, text |-> ""]]
  /\ reqDoc = [r \in Reqs |-> NoChat]
  /\ reqRes = [r \in Reqs |-> NoRes]

InitClients ==
  /\ received = [s \in Sockets |-> <<>>]
  /\ typing = [s \in Sockets |-> <<>>]
  /\ timers = [s \in Sockets |-> {}]
  /\ nextTimer = [s \in Sockets |-> 1]
  /\ posted = [s \in Sockets |-> <<>>]
  /\ chatUsers = <<>>
  /\ appUsers = <<>>
  /\ appTypingUsers = <<>>

(* nothing is drawn and nothing was sent to the pool                       *)
InitUi ==
  /\ uiArg = <<>>
  /\ uiTyping = [hidden |-> TRUE, nodes |-> <<>>, of |-> <<>>, calls |-> 0]

InitPool ==
  /\ poolId = 0
  /\ callbacks = <<>>
  /\ promises = [r \in Reqs |-> NoPromise]
  /\ busy = [w \in Workers |-> FALSE]
  /\ rrNext = 1
  /\ toWorker = [w \in Workers |-> <<>>]
  /\ running = {}
  /\ toMain = [w \in Workers |-> <<>>]
  /\ replies = <<>>
  /\ schedulingPolicy = SCHED_DEFAULT
  /\ sentTo = <<>>

(* the server has started and no retention sweep is running                *)
InitSweeps ==
  /\ swPc = [w \in Runs |-> "idle"]
  /\ swSince = [w \in Runs |-> 0]
  /\ swChats = [w \in Runs |-> <<>>]
  /\ swIdx = [w \in Runs |-> 0]
  /\ swCounting = [w \in Runs |-> {}]
  /\ swRemoving = [w \in Runs |-> {}]
  /\ removed = <<>>

InitServer == bootPc = "up" /\ clearPc = "done" /\ InitSweeps

Init == InitStore /\ InitSockets /\ InitReqs /\ InitClients /\ InitUi /\ InitPool /\ InitServer

Next == \E s \in Sockets : SocketStep(s)

Spec == Init /\ [][Next]_vars

(* connect and disconnect handlers that run one at a time: a socket        *)
(* connects or disconnects only while no handler is between two awaits     *)
AtRest(s) == sockPc[s] \in {"new", "dropped", "joined", "dNone", "done", "failed"}
NoHandlerInFlight == \A s \in Sockets : AtRest(s)

OnConnectAlone(s, hs) == NoHandlerInFlight /\ OnConnect(s, hs)
TransportDisconnectAlone(s) == NoHandlerInFlight /\ TransportDisconnect(s)

NextSeq ==
  \E s \in Sockets :
    \/ \E hs \in Handshakes : OnConnectAlone(s, hs)
    \/ ConnectChatFound(s)
    \/ ConnectChatMissing(s)
    \/ ConnectUserFound(s)
    \/ ConnectUserMissing(s)
    \/ ConnectSave(s)
    \/ ConnectJoin(s)
    \/ TransportDisconnectAlone(s)
    \/ DisconnectChatFound(s)
    \/ DisconnectSave(s)
    \/ DisconnectEmit(s)

SpecSeq == Init /\ [][NextSeq]_vars

(* The chat in use: the first MaxClients sockets have connected to chat 1,  *)
(* odd sockets as user 1 and even sockets as user 2, and all userConnected *)
(* events have been handled.  The event logs start here.                   *)
Clients == 1..MaxClients

UserOf(s) == 2 - (s % 2)

InitJoined ==
  /\ chats = <<[id |-> 1, name |-> "general-chat",
                users |-> [s \in Clients |-> UserOf(s)], v |-> MaxClients,
                createdAt |-> 1]>>
  /\ users = <<[id |-> 1, name |-> "alice", tag |-> 1],
               [id |-> 2, name |-> "bob", tag |-> 2]>>
  /\ messages = <<>>
  /\ sockPc = [s \in Sockets |-> IF s \in Clients THEN "joined" ELSE "new"]
  /\ sockHs = [s \in Sockets |->
       IF s \in Clients THEN <<1, UserOf(s)>> ELSE <<0, 0>>]
  /\ sockOpen = [s \in Sockets |-> s \in Clients]
  /\ sockRoom = [s \in Sockets |-> IF s \in Clients THEN 1 ELSE 0]
  /\ sockChat = [s \in Sockets |->
       IF s \in Clients
         THEN [id |-> 1, name |-> "general-chat",
               users |-> [q \in 1..s |-> UserOf(q)], v |-> s - 1,
               createdAt |-> 1]
         ELSE NoChat]
  /\ emitted = <<>>
  /\ inbox = [s \in Sockets |-> <<>>]

InitChat == InitJoined /\ InitReqs /\ InitClients /\ InitUi /\ InitPool /\ InitServer

(* requests against a chat whose users disconnect                          *)
NextPost ==
  \/ \E r \in Reqs : ChatRequestStep(r)
  \/ \E s \in Sockets :
       \/ TransportDisconnect(s)
       \/ DisconnectChatFound(s)
       \/ DisconnectSave(s)
       \/ DisconnectSaveRejected(s)
       \/ DisconnectEmit(s)

SpecPost == InitChat /\ [][NextPost]_vars

(* requests against a chat whose clients handle the events                 *)
NextTyping ==
  \/ \E r \in Reqs : ChatRequestStep(r)
  \/ \E s \in Sockets : ClientStep(s)

SpecTyping == InitChat /\ [][NextTyping]_vars

(* the api after the first registration: general-chat and one user exist  *)
InitRegistered ==
  /\ chats = <<[id |-> 1, name |-> "general-chat", users |-> <<>>, v |-> 0,
                createdAt |-> 1]>>
  /\ users = <<[id |-> 1, name |-> "alice", tag |-> 1]>>
  /\ messages = <<>>

InitApi == InitRegistered /\ InitSockets /\ InitReqs /\ InitClients /\ InitUi /\ InitPool /\ InitServer

NextApi == \E r \in Reqs : ApiRequestStep(r)

SpecApi == InitApi /\ [][NextApi]_vars

(* Two chats in use: general-chat and room.  The first MaxClients sockets  *)
(* have connected, odd sockets as user 1 to general-chat and even sockets  *)
(* as user 2 to room; the other sockets connect and disconnect while       *)
(* requests are served.                                                    *)
Joiners == Sockets \ Clients

RoomOf(s) == 2 - (s % 2)

ClientsOf(c) == SelectSeq([s \in Clients |-> s], LAMBDA s : RoomOf(s) = c)

InitTwoChats ==
  /\ chats = <<[id |-> 1, name |-> "general-chat",
                users |-> [i \in 1..Len(ClientsOf(1)) |-> UserOf(ClientsOf(1)[i])],
                v |-> Len(ClientsOf(1)), createdAt |-> 1],
               [id |-> 2, name |-> "room",
                users |-> [i \in 1..Len(ClientsOf(2)) |-> UserOf(ClientsOf(2)[i])],
                v |-> Len(ClientsOf(2)), createdAt |-> 1]>>
  /\ users = <<[id |-> 1, name |-> "alice", tag |-> 1],
               [id |-> 2, name |-> "bob", tag |-> 2]>>
  /\ messages = <<>>

InitTwoRooms ==
  /\ sockPc = [s \in Sockets |-> IF s \in Clients THEN "joined" ELSE "new"]
  /\ sockHs = [s \in Sockets |->
       IF s \in Clients THEN <<RoomOf(s), UserOf(s)>> ELSE <<0, 0>>]
  /\ sockOpen = [s \in Sockets |-> s \in Clients]
  /\ sockRoom = [s \in Sockets |-> IF s \in Clients THEN RoomOf(s) ELSE 0]
  /\ sockChat = [s \in Sockets |->
       IF s \in Clients THEN ChatFindById(RoomOf(s)) ELSE NoChat]
  /\ emitted = <<>>
  /\ inbox = [s \in Sockets |-> <<>>]

InitRooms ==
  InitTwoChats /\ InitTwoRooms /\ InitReqs /\ InitClients /\ InitUi /\ InitPool /\ InitServer

(* the ids the other sockets send: valid pairs, ids of no document (9) and *)
(* malformed ids (0)                                                       *)
RoomHandshakes == {<<1, 2>>, <<2, 2>>, <<9, 1>>, <<1, 9>>, <<0, 1>>, <<1, 0>>}

JoinerStep(s) ==
  \/ \E hs \in RoomHandshakes : OnConnect(s, hs)
  \/ \E hs \in RoomHandshakes : OnConnectInvalid(s, hs)
  \/ ConnectChatFound(s)
  \/ ConnectChatMissing(s)
  \/ ConnectUserFound(s)
  \/ ConnectUserMissing(s)
  \/ ConnectSave(s)
  \/ ConnectJoin(s)
  \/ TransportDisconnect(s)
  \/ DisconnectChatFound(s)
  \/ DisconnectSave(s)
  \/ DisconnectEmit(s)

(* the requests sent meanwhile                                             *)
RoomRequestStep(r) ==
  \/ PostChatMessage(r, 2, 2, "hi")
  \/ PostChatFound(r)
  \/ PostSave(r)
  \/ PostReply(r)
  \/ PostChatUserTyping(r, 1, 1)
  \/ TypingChatFound(r)
  \/ TypingReply(r)
  \/ \E in \in {<<1, "den">>, <<1, "room">>, <<9, "den">>, <<1, "">>} :
       CreateChat(r, in[1], in[2])
  \/ CreateNameLookedUp(r)
  \/ CreateUserLookedUp(r)
  \/ CreateSave(r)
  \/ CreateReply(r)

NextRooms ==
  \/ \E s \in Joiners : JoinerStep(s)
  \/ \E r \in Reqs : RoomRequestStep(r)

SpecRooms == InitRooms /\ [][NextRooms]_vars

(* the requests to the two chats and createChat, with store operations     *)
(* that may fail                                                           *)
CreateRequestStep(r) ==
  \/ \E in \in {<<1, "den">>, <<1, "room">>} : CreateChat(r, in[1], in[2])
  \/ CreateNameLookedUp(r)
  \/ CreateUserLookedUp(r)
  \/ CreateSave(r)
  \/ CreateReply(r)

NextCalls ==
  \E r \in Reqs :
    \/ ChatRequestStep(r)
    \/ CreateRequestStep(r)
    \/ StoreFailureStep(r)

SpecCalls == InitRooms /\ [][NextCalls]_vars

(* The retention sweep over chats in use: general-chat with an old and a   *)
(* recent message, room with one message as old as sinceDate, den created  *)
(* after sinceDate; the first MaxClients sockets are connected as in       *)
(* InitTwoRooms, and user 2 posts to room while the sweep runs.            *)
InitOldChats ==
  /\ chats = <<[id |-> 1, name |-> "general-chat",
                users |-> [i \in 1..Len(ClientsOf(1)) |-> UserOf(ClientsOf(1)[i])],
                v |-> Len(ClientsOf(1)), createdAt |-> 1],
               [id |-> 2, name |-> "room",
                users |-> [i \in 1..Len(ClientsOf(2)) |-> UserOf(ClientsOf(2)[i])],
                v |-> Len(ClientsOf(2)), createdAt |-> 2],
               [id |-> 3, name |-> "den", users |-> <<>>, v |-> 0, createdAt |-> 3]>>
  /\ users = <<[id |-> 1, name |-> "alice", tag |-> 1],
               [id |-> 2, name |-> "bob", tag |-> 2]>>
  /\ messages = <<[id |-> 1, chat |-> 1, user |-> 1, content |-> "old", createdAt |-> 1],
                  [id |-> 2, chat |-> 1, user |-> 1, content |-> "new", createdAt |-> 3],
                  [id |-> 3, chat |-> 2, user |-> 2, content |-> "old", createdAt |-> 2]>>

InitSweep ==
  InitOldChats /\ InitTwoRooms /\ InitReqs /\ InitClients /\ InitUi /\ InitPool /\ InitServer

SweepRequestStep(r) ==
  \/ PostChatMessage(r, 2, 2, "hi")
  \/ PostChatFound(r)
  \/ PostSave(r)
  \/ PostReply(r)

NextSweep ==
  \/ \E w \in Runs : SweepStep(w)
  \/ \E r \in Reqs : SweepRequestStep(r)

SpecSweep == InitSweep /\ [][NextSweep]_vars

(* Starting the server on a store that is empty or was left by an earlier  *)
(* start: general-chat with old messages only, or with a recent one too,   *)
(* next to an old chat without messages.                                   *)
InitLeftStore ==
  /\ users = <<[id |-> 1, name |-> "alice", tag |-> 1]>>
  /\ \/ chats = <<>> /\ messages = <<>>
     \/ /\ chats = <<[id |-> 1, name |-> "general-chat", users |-> <<1>>, v |-> 1,
                       createdAt |-> 1],
                      [id |-> 2, name |-> "room", users |-> <<>>, v |-> 0,
                       createdAt |-> 1]>>
        /\ \/ messages =
                <<[id |-> 1, chat |-> 1, user |-> 1, content |-> "old", createdAt |-> 1],
                  [id |-> 2, chat |-> 1, user |-> 1, content |-> "old", createdAt |-> 2]>>
           \/ messages =
                <<[id |-> 1, chat |-> 1, user |-> 1, content |-> "old", createdAt |-> 1],
                  [id |-> 2, chat |-> 1, user |-> 1, content |-> "new", createdAt |-> 3]>>

InitStartup ==
  /\ InitLeftStore /\ InitSockets /\ InitReqs /\ InitClients /\ InitUi /\ InitPool
  /\ bootPc = "down" /\ clearPc = "idle" /\ InitSweeps

(* the routes are served once the startup has finished                     *)
CreateChatWhileUp(r, userId, chatName) == bootPc = "up" /\ CreateChat(r, userId, chatName)

StartupRequestStep(r) ==
  \/ CreateChatWhileUp(r, 1, "general-chat")
  \/ CreateNameLookedUp(r)
  \/ CreateReply(r)

NextStartup ==
  \/ StartupStep
  \/ \E w \in Runs : SweepCallByInterval(w)
  \/ \E w \in Runs : SweepBody(w)
  \/ \E r \in Reqs : StartupRequestStep(r)

SpecStartup == InitStartup /\ [][NextStartup]_vars

(* One start of the server followed by connections: socket.io accepts a    *)
(* connection once the http server listens; two sockets connect to chat 1  *)
(* as user 1 and disconnect, and general-chat is asked for by createChat.  *)
Connecting == {1, 2}

OnConnectWhileUp(s, hs) == bootPc = "up" /\ OnConnect(s, hs)

ListenSocketStep(s) ==
  \/ OnConnectWhileUp(s, <<1, 1>>)
  \/ ConnectChatFound(s)
  \/ ConnectUserFound(s)
  \/ ConnectSave(s)
  \/ ConnectJoin(s)
  \/ TransportDisconnect(s)
  \/ DisconnectChatFound(s)
  \/ DisconnectSave(s)
  \/ DisconnectEmit(s)

NextListen ==
  \/ Boot
  \/ GeneralChatLookedUp
  \/ GeneralChatSaved
  \/ ChatsCleared
  \/ \E w \in Runs : SweepCallAtStartup(w)
  \/ Listen
  \/ \E w \in Runs : SweepBody(w)
  \/ \E s \in Connecting : ListenSocketStep(s)
  \/ \E r \in Reqs : StartupRequestStep(r)

SpecListen == InitStartup /\ [][NextListen]_vars

(* The typing tracker of one client: socket 1 has joined general-chat as   *)
(* user 1, and the server emits typing events of the users of the chat to  *)
(* the room, as the replies of postChatUserTyping and postChatMessage do.  *)
MaxEvents == 4

TypingUsers == 1..3

(* the socket of the client: the first one                                 *)
Tracker == CHOOSE s \in Sockets : \A q \in Sockets : s <= q

InitTracked ==
  /\ chats = <<[id |-> 1, name |-> "general-chat", users |-> <<1>>, v |-> 1,
                createdAt |-> 1]>>
  /\ users = <<[id |-> 1, name |-> "alice", tag |-> 1],
               [id |-> 2, name |-> "bob", tag |-> 2],
               [id |-> 3, name |-> "carol", tag |-> 3]>>
  /\ messages = <<>>
  /\ sockPc = [s \in Sockets |-> IF s = Tracker THEN "joined" ELSE "new"]
  /\ sockHs = [s \in Sockets |-> IF s = Tracker THEN <<1, 1>> ELSE <<0, 0>>]
  /\ sockOpen = [s \in Sockets |-> s = Tracker]
  /\ sockRoom = [s \in Sockets |-> IF s = Tracker THEN 1 ELSE 0]
  /\ sockChat = [s \in Sockets |->
       IF s = Tracker
         THEN [id |-> 1, name |-> "general-chat", users |-> <<1>>, v |-> 0,
               createdAt |-> 1]
         ELSE NoChat]
  /\ emitted = <<>>
  /\ inbox = [s \in Sockets |-> <<>>]

InitTracker == InitTracked /\ InitReqs /\ InitClients /\ InitUi /\ InitPool /\ InitServer

(* this.socket.io.to(chatId).emit(name, user)                              *)
TypingEventEmitted(name, u) ==
  /\ Len(emitted) < MaxEvents
  /\ Emit(sockRoom, <<Event(name, <<1>>, UserToClientObject(UserFindById(u)), 0)>>)
  /\ UNCHANGED <<storeVars, sockVars, reqVars, clientVars, serverVars, uiVars, poolVars>>

NextTracker ==
  \/ \E u \in TypingUsers : TypingEventEmitted("userStartedTyping", u)
  \/ \E u \in TypingUsers : TypingEventEmitted("userStoppedTyping", u)
  \/ \E s \in Sockets : ClientUserStartedTyping(s)
  \/ \E s \in Sockets : ClientUserStoppedTyping(s)
  \/ \E s \in Sockets : \E t \in timers[s] : TypingTimeout(s, t)

SpecTracker == InitTracker /\ [][NextTracker]_vars

(* the event loop runs the callback of a timeout that is pending and not   *)
(* cleared                                                                 *)
TrackerFairness ==
  WF_vars(\E s \in Sockets : \E t \in timers[s] : TypingTimeout(s, t))

SpecTrackerFair == SpecTracker /\ TrackerFairness

(* The users of the chat as the client of socket Tracker keeps them: the   *)
(* list starts with some of four users, in order, and userConnected and    *)
(* userDisconnected events of the four arrive in any order.                *)
People ==
  {[id |-> 1, name |-> "bob", tag |-> 1], [id |-> 2, name |-> "Bob", tag |-> 2],
   [id |-> 3, name |-> "al", tag |-> 3], [id |-> 4, name |-> "Cy", tag |-> 4]}

(* the place of a name in the alphabet, whatever its case                  *)
NameRank(name) ==
  CASE name = "al" -> 1
    [] name \in {"bob", "Bob"} -> 2
    [] name = "Cy" -> 3
    [] OTHER -> 0

KeyLeq(a, b) ==
  \/ NameRank(a.name) < NameRank(b.name)
  \/ NameRank(a.name) = NameRank(b.name) /\ a.tag <= b.tag

RosterOrdered(l) ==
  \A i, j \in 1..Len(l) : i < j => (l[i].id # l[j].id /\ KeyLeq(l[i], l[j]))

RosterLists ==
  {l \in UNION {[1..k -> People] : k \in 0..Cardinality(People)} : RosterOrdered(l)}

InitMemory(cu, au) ==
  /\ received = [s \in Sockets |-> <<>>]
  /\ typing = [s \in Sockets |-> <<>>]
  /\ timers = [s \in Sockets |-> {}]
  /\ nextTimer = [s \in Sockets |-> 1]
  /\ posted = [s \in Sockets |-> <<>>]
  /\ chatUsers = cu
  /\ appUsers = au
  /\ appTypingUsers = <<>>

InitRoster ==
  /\ InitTracked /\ InitReqs /\ InitUi /\ InitPool /\ InitServer
  /\ \E l \in RosterLists : InitMemory(l, <<>>)

(* an event of the chat arrives at the client                              *)
EventArrives == Len(received[Tracker]) < MaxEvents

NextRoster ==
  \/ \E u \in People : EventArrives /\ WorkerUserConnected(Tracker, u)
  \/ \E u \in People : EventArrives /\ WorkerUserDisconnected(Tracker, u)

SpecRoster == InitRoster /\ [][NextRoster]_vars

(* The App state of the client of socket Tracker, connected as user 1:     *)
(* presence and typing events of the four users arrive in any order and    *)
(* the timeouts of the typing entries fire.                                *)
InitApp ==
  /\ InitTracked /\ InitReqs /\ InitUi /\ InitPool /\ InitServer
  /\ InitMemory(<<>>, <<>>)

NextApp ==
  \/ \E u \in People : EventArrives /\ AppUserConnected(Tracker, u)
  \/ \E u \in People : EventArrives /\ AppUserDisconnected(Tracker, u)
  \/ \E u \in People : EventArrives /\ AppUserStartedTyping(Tracker, u)
  \/ \E u \in People : EventArrives /\ AppUserStoppedTyping(Tracker, u)
  \/ \E t \in timers[Tracker] : AppTypingTimeout(Tracker, t)

SpecApp == InitApp /\ [][NextApp]_vars

(* The api called by one client, each request sent when the previous one   *)
(* has been answered, on a store without users or on one in use.           *)
InitFreshOrUsed ==
  /\ chats = <<[id |-> 1, name |-> "general-chat", users |-> <<>>, v |-> 0,
                createdAt |-> 1],
               [id |-> 2, name |-> "room", users |-> <<>>, v |-> 0, createdAt |-> 3]>>
  /\ \/ users = <<>> /\ messages = <<>>
     \/ /\ users = <<[id |-> 1, name |-> "alice", tag |-> 1]>>
        /\ messages =
             <<[id |-> 1, chat |-> 1, user |-> 1, content |-> "hi", createdAt |-> 3],
               [id |-> 2, chat |-> 2, user |-> 1, content |-> "yo", createdAt |-> 3],
               [id |-> 3, chat |-> 1, user |-> 1, content |-> "bye", createdAt |-> 4]>>

InitCalls == InitFreshOrUsed /\ InitSockets /\ InitReqs /\ InitClients /\ InitUi /\ InitPool /\ InitServer

Answered == \A q \in Reqs : reqPc[q] \in {"idle", "done"}

(* the ids a client sends: of a stored document, of none, and no id        *)
LogInInputs == {1, 2, 9, 0}
MessagesInputs == {1, 2, 9, 0}

CallStep(r) ==
  \/ \E in \in RegisterInputs : Answered /\ RegisterUser(r, in)
  \/ RegisterLatestFound(r)
  \/ RegisterSave(r)
  \/ RegisterReply(r)
  \/ \E in \in LogInInputs : Answered /\ LogInUser(r, in)
  \/ LogInUserFound(r)
  \/ LogInReply(r)
  \/ \E in \in MessagesInputs : Answered /\ GetChatMessages(r, in)
  \/ GetChatMessagesFound(r)
  \/ GetChatMessagesReply(r)

NextOneByOne == \E r \in Reqs : CallStep(r)

SpecOneByOne == InitCalls /\ [][NextOneByOne]_vars

(* drawTypingUsers on every list of up to MaxTypists users                 *)
MaxTypists == 4
MaxCalls == 4

NameOf(i) == <<"alice", "bob", "carol", "dave", "erin", "frank">>[i]

TypingLists ==
  {[i \in 1..Len(ids) |-> [id |-> ids[i], name |-> NameOf(ids[i]), tag |-> ids[i]]] :
     ids \in {f \in UNION {[1..k -> 1..MaxTypists] : k \in 0..MaxTypists} :
                \A i, j \in 1..Len(f) : i # j => f[i] # f[j]}}

InitDraw ==
  /\ InitStore /\ InitSockets /\ InitReqs /\ InitClients /\ InitPool /\ InitServer
  /\ uiArg \in TypingLists
  /\ uiTyping \in {[hidden |-> TRUE, nodes |-> <<>>, of |-> <<>>, calls |-> 0],
                    [hidden |-> FALSE,
                     nodes |-> <<TextNode("Several people are typing...")>>,
                     of |-> <<>>, calls |-> 0]}

NextDraw == DrawTypingUsers

SpecDraw == InitDraw /\ [][NextDraw]_vars

(* The worker pool with MaxReqs calls of send: jobs end in every way and   *)
(* in any order.                                                           *)
NextPool ==
  \/ \E r \in Reqs : \E op \in SentOps : PoolSend(r, op)
  \/ \E w \in Workers : \E outcome \in SyncOutcomes : WorkerOnMessage(w, outcome)
  \/ \E j \in running : \E outcome \in AsyncOutcomes : JobSettled(j, outcome)
  \/ \E w \in Workers : \E id \in 0..MaxReqs : PoolStrayReply(w, id)
  \/ \E w \in Workers : PoolOnMessage(w)

SpecPool == Init /\ [][NextPool]_vars

(* The scheduling of the pool: MaxCalls calls of send under either policy, *)
(* every job returns a value, replies are handled in any order.            *)
Calls == 1..MaxCalls

InitSched ==
  /\ InitStore /\ InitSockets /\ InitReqs /\ InitClients /\ InitUi /\ InitServer
  /\ poolId = 0
  /\ callbacks = <<>>
  /\ promises = [r \in Calls |-> NoPromise]
  /\ busy = [w \in Workers |-> FALSE]
  /\ rrNext = 1
  /\ toWorker = [w \in Workers |-> <<>>]
  /\ running = {}
  /\ toMain = [w \in Workers |-> <<>>]
  /\ replies = <<>>
  /\ schedulingPolicy \in {SCHED_DEFAULT, SCHED_RR}
  /\ sentTo = <<>>

NextSched ==
  \/ \E r \in Calls : PoolSend(r, "registerUser")
  \/ \E w \in Workers : WorkerOnMessage(w, "returns")
  \/ \E w \in Workers : PoolOnMessage(w)

SpecSched == InitSched /\ [][NextSched]_vars

(* ------------------------------ presence ------------------------------- *)
ValidPairs == {<<1, 1>>, <<1, 2>>}

(* the sockets of a (chat, user) pair and its live registered connections  *)
PairSockets(hs) == {s \in Sockets : sockHs[s] = hs}
LiveConnections(hs) ==
  {s \in PairSockets(hs) : sockPc[s] = "joined" /\ sockOpen[s]}
LiveCount(hs) == Cardinality(LiveConnections(hs))

(* the presence events emitted for a pair, in order                        *)
PresenceEvents(hs) ==
  SelectSeq(emitted, LAMBDA e :
    /\ e.name \in {"userConnected", "userDisconnected"}
    /\ e.rooms = <<hs[1]>>
    /\ e.payload.id = hs[2])
CountEvents(name, hs) ==
  Len(SelectSeq(PresenceEvents(hs), LAMBDA e : e.name = name))

(* the entries of a user in the stored users list of a chat                *)
StoredEntries(hs) == Len(getMatchedUsers(ChatFindById(hs[1]).users, hs[2]))

(* C1: N >= 2 connections of one (chat, user) pair produce exactly one     *)
(* userConnected, however their connect handlers interleave (not more than *)
(* one while none of them has disconnected, exactly one once all of them   *)
(* have joined), and exactly one userDisconnected once all of them have    *)
(* disconnected and their handlers have finished.                          *)
C1_PresenceDedup ==
  \A hs \in ValidPairs :
    Cardinality(PairSockets(hs)) >= 2 =>
      /\ (\A s \in PairSockets(hs) : sockOpen[s])
           => CountEvents("userConnected", hs) <= 1
      /\ (\A s \in PairSockets(hs) : sockOpen[s] /\ sockPc[s] = "joined")
           => CountEvents("userConnected", hs) = 1
      /\ ((\A s \in PairSockets(hs) : ~sockOpen[s] /\ AtRest(s))
            /\ CountEvents("userConnected", hs) = 1)
           => CountEvents("userDisconnected", hs) = 1

(* C2: whenever no connect or disconnect handler is in flight, the number  *)
(* of entries of a user in a chat's users list equals the number of live   *)
(* connections registered for that (chat, user) pair.                      *)
C2_PresenceInvariant ==
  NoHandlerInFlight =>
    \A hs \in ValidPairs : StoredEntries(hs) = LiveCount(hs)

(* C3: per pair, userConnected and userDisconnected strictly alternate,    *)
(* starting with userConnected, and whenever no handler is in flight the   *)
(* last presence event of the pair is userConnected iff the pair has a     *)
(* live connection.                                                        *)
Alternates(evs) ==
  \A i \in 1..Len(evs) :
    evs[i].name = IF i % 2 = 1 THEN "userConnected" ELSE "userDisconnected"

C3_PresenceStateMachine ==
  \A hs \in ValidPairs :
    /\ Alternates(PresenceEvents(hs))
    /\ NoHandlerInFlight =>
         ((Len(PresenceEvents(hs)) % 2 = 1) <=> (LiveCount(hs) >= 1))

C5_EntryRemovedOnDisconnect ==
  \A s \in Sockets :
    (~sockOpen[s] /\ AtRest(s) /\ sockPc[s] \notin {"new", "dropped"})
      => sockPc[s] = "done"

(* ------------------------- messages and typing ------------------------- *)
IsPost(r) == reqMsg[r].op = "postChatMessage"
IsTyping(r) == reqMsg[r].op = "postChatUserTyping"
Succeeded(r) == reqPc[r] = "done" /\ reqRes[r].statusCode \in {200, 204}

(* C6: once a post of (chat, user) has succeeded, every typing request of  *)
(* that pair was sent before it and has been answered, and all events have *)
(* been handled, no other client of the chat lists the user as typing.     *)
C6_PostClearsTyping ==
  \A p \in Reqs :
    (/\ IsPost(p) /\ Succeeded(p)
     /\ \A t \in Reqs :
          (IsTyping(t) /\ reqMsg[t].chatId = reqMsg[p].chatId
                       /\ reqMsg[t].userId = reqMsg[p].userId)
            => (t < p /\ reqPc[t] = "done")
     /\ \A s \in Sockets : inbox[s] = <<>>)
    => \A s \in Sockets :
         (sockRoom[s] = reqMsg[p].chatId /\ sockHs[s][2] # reqMsg[p].userId)
           => findTypingUserIndexById(typing[s], reqMsg[p].userId) = 0

(* C9: a message is persisted only for a user who is present in the chat   *)
(* at that moment: the user is in the chat's stored users list or has a    *)
(* live connection to the chat.                                            *)
C9_PostRequiresPresence ==
  [][\A r \in Reqs :
       (reqPc[r] = "pSave" /\ reqPc'[r] = "reply")
         => \/ StoredEntries(<<reqMsg[r].chatId, reqMsg[r].userId>>) >= 1
            \/ LiveCount(<<reqMsg[r].chatId, reqMsg[r].userId>>) >= 1]_vars

(* C10: in the order of emission and in the order in which each connection *)
(* of the room observes its events, the messagePosted of a call precedes   *)
(* the userStoppedTyping of the same call, and every connection of the     *)
(* room observes both events of an answered successful call.               *)
Observed(s) == received[s] \o inbox[s]

PostedBeforeStopped(evs) ==
  \A j \in 1..Len(evs) :
    evs[j].name = "userStoppedTyping" =>
      \E i \in 1..(j - 1) :
        evs[i].name = "messagePosted" /\ evs[i].call = evs[j].call

HasBoth(evs, r) ==
  \E i, j \in 1..Len(evs) :
    /\ i < j
    /\ evs[i].name = "messagePosted" /\ evs[i].call = r
    /\ evs[j].name = "userStoppedTyping" /\ evs[j].call = r

C10_MessagePostedFirst ==
  /\ PostedBeforeStopped(emitted)
  /\ \A s \in Sockets : PostedBeforeStopped(Observed(s))
  /\ \A r \in Reqs :
       (IsPost(r) /\ Succeeded(r)) =>
         \A s \in InRoom(sockRoom, sockOpen, <<reqMsg[r].chatId>>) :
           HasBoth(Observed(s), r)

(* a client has handled both events of a call                              *)
C10_Witness == \E s \in Sockets, r \in Reqs : HasBoth(received[s], r)

(* --------------------------------- api --------------------------------- *)
(* C7: the registered users carry the tags 1..k in registration order, so  *)
(* no two users have the same tag.                                         *)
C7_TagsAreOneToK == \A i \in 1..Len(users) : users[i].tag = i

(* C8: no two chats have the same name.                                    *)
C8_ChatNamesUnique ==
  \A i, j \in 1..Len(chats) : i # j => chats[i].name # chats[j].name

(* ------------------------- persistence and errors ---------------------- *)
EventsOf(r) == SelectSeq(emitted, LAMBDA e : e.call = r)
EventsNamed(name) == SelectSeq(emitted, LAMBDA e : e.name = name)

IsSaved(docs, id) == \E i \in 1..Len(docs) : docs[i].id = id

JobFailed(r) == reqPc[r] \in {"error", "rejected"}

(* C11: every emitted messagePosted carries a message that is in the store *)
(* and every emitted chatCreated a chat that is in the store, and a call   *)
(* whose save step failed has emitted no event.                            *)
C11_NoBroadcastWithoutPersistence ==
  /\ \A i \in 1..Len(emitted) :
       /\ emitted[i].name = "messagePosted"
            => IsSaved(messages, emitted[i].payload.id)
       /\ emitted[i].name = "chatCreated"
            => IsSaved(chats, emitted[i].payload.id)
  /\ \A r \in Reqs : JobFailed(r) => EventsOf(r) = <<>>

(* the save of one call has failed and its reply has been handled, and     *)
(* another call has saved and emitted its event                            *)
C11_Witness ==
  /\ \E r \in Reqs : reqPc[r] = "rejected"
  /\ \E r \in Reqs : reqPc[r] = "done" /\ EventsOf(r) # <<>>

(* C12: a postChatMessage or createChat request whose job failed, and      *)
(* whose reply the main process has handled, has been answered with a      *)
(* status that is neither 400 nor 404.                                     *)
C12_ErrorsAreAnswered ==
  \A r \in Reqs :
    reqPc[r] = "rejected" => reqRes[r].statusCode \notin {0, 400, 404}

(* ------------------------------- delivery ------------------------------ *)
(* the events a step emits and the events it hands to a socket             *)
NewEvents == SubSeq(emitted', Len(emitted) + 1, Len(emitted'))
NewIn(s) == SubSeq(inbox'[s], Len(inbox[s]) + 1, Len(inbox'[s]))

IsRoomEvent(e) ==
  e.name \in {"messagePosted", "userStartedTyping", "userStoppedTyping",
              "userConnected", "userDisconnected"}

(* the chat an event of this step is emitted for: the chat of the request  *)
(* that is answered, or the chat of the socket whose handler ends          *)
EventChat(e) ==
  IF e.call # 0
  THEN reqMsg[e.call].chatId
  ELSE sockHs[CHOOSE s \in Sockets : sockPc'[s] # sockPc[s]][1]

(* C13: an event emitted for chat A is addressed to room A and is handed   *)
(* to exactly the connected sockets that have joined room A at that        *)
(* moment, so never to a socket that has joined only another chat.         *)
C13_RoomScopedDelivery ==
  [][\A i \in 1..Len(NewEvents) :
       IsRoomEvent(NewEvents[i]) =>
         /\ NewEvents[i].rooms = <<EventChat(NewEvents[i])>>
         /\ \A s \in Sockets :
              (\E j \in 1..Len(NewIn(s)) : NewIn(s)[j] = NewEvents[i])
                <=> (sockOpen'[s] /\ sockRoom'[s] = EventChat(NewEvents[i]))]_vars

(* two connected sockets have joined different rooms, and one of them has  *)
(* been handed an event of its room that the other one has not             *)
C13_Witness ==
  \E s1, s2 \in Sockets :
    /\ sockOpen[s1] /\ sockOpen[s2]
    /\ sockRoom[s1] # 0 /\ sockRoom[s2] # 0 /\ sockRoom[s1] # sockRoom[s2]
    /\ \E i \in 1..Len(inbox[s1]) :
         /\ IsRoomEvent(inbox[s1][i])
         /\ inbox[s1][i].name \in {"userConnected", "messagePosted"}
         /\ \A j \in 1..Len(inbox[s2]) : inbox[s2][j] # inbox[s1][i]

(* the step in which the main process answers the createChat request r     *)
CreateAnswered(r) ==
  reqMsg[r].op = "createChat" /\ reqPc[r] = "reply" /\ reqPc'[r] = "done"

(* C14: answering a successful createChat emits exactly one chatCreated    *)
(* with the saved chat and hands it to every connected socket, whatever    *)
(* room it has joined; answering a failed createChat emits nothing; no     *)
(* other step emits chatCreated.                                           *)
C14_ChatCreatedToEveryone ==
  [][/\ \A r \in Reqs :
          CreateAnswered(r) =>
            IF reqRes[r].statusCode = 200
            THEN /\ Len(NewEvents) = 1
                 /\ NewEvents[1].name = "chatCreated"
                 /\ NewEvents[1].payload.name = reqMsg[r].text
                 /\ \E k \in 1..Len(chats) :
                      /\ chats[k].id = NewEvents[1].payload.id
                      /\ chats[k].name = NewEvents[1].payload.name
                 /\ \A s \in Sockets :
                      NewIn(s) = IF sockOpen[s] THEN NewEvents ELSE <<>>
            ELSE /\ NewEvents = <<>>
                 /\ \A s \in Sockets : NewIn(s) = <<>>
     /\ \A i \in 1..Len(NewEvents) :
          NewEvents[i].name = "chatCreated" => \E r \in Reqs : CreateAnswered(r)]_vars

(* a chatCreated has reached sockets of two different rooms and has not    *)
(* reached a socket whose transport had disconnected                      *)
C14_Witness ==
  \E i \in 1..Len(emitted) :
    /\ emitted[i].name = "chatCreated"
    /\ \E s1, s2 \in Sockets :
         /\ sockRoom[s1] # 0 /\ sockRoom[s2] # 0 /\ sockRoom[s1] # sockRoom[s2]
         /\ \E j \in 1..Len(inbox[s1]) : inbox[s1][j] = emitted[i]
         /\ \E j \in 1..Len(inbox[s2]) : inbox[s2][j] = emitted[i]
    /\ \E s \in Sockets :
         /\ sockPc[s] # "new" /\ ~sockOpen[s]
         /\ \A j \in 1..Len(inbox[s]) : inbox[s][j] # emitted[i]
    /\ \E r \in Reqs :
         reqMsg[r].op = "createChat" /\ reqPc[r] = "done" /\ reqRes[r].statusCode = 400

(* the handshake ids are malformed or belong to no document                *)
InvalidHandshake(hs) ==
  \/ ~(isValidObjectId(hs[1]) /\ isValidObjectId(hs[2]))
  \/ ChatFindById(hs[1]) = NoChat
  \/ UserFindById(hs[2]) = NoUser

(* C15: every step of a socket that connected with a malformed or unknown  *)
(* chatId or userId, from its connect to after its disconnect, leaves the  *)
(* users lists and the rooms as they are and emits nothing, and no         *)
(* disconnect handler ever runs for it.                                    *)
C15_InvalidConnectDropped ==
  [][\A s \in Sockets :
       (/\ sockPc'[s] # "new"
        /\ InvalidHandshake(sockHs'[s])
        /\ (sockPc'[s] # sockPc[s] \/ sockOpen'[s] # sockOpen[s]))
         => /\ chats' = chats
            /\ sockRoom' = sockRoom /\ sockRoom[s] = 0
            /\ emitted' = emitted /\ inbox' = inbox
            /\ sockPc'[s] \in {"cFindChat", "cFindUser", "dropped"}]_vars

(* a socket with an unknown userId was dropped after both lookups and its  *)
(* transport has disconnected since                                        *)
C15_Witness ==
  \E s \in Sockets :
    /\ sockPc[s] = "dropped" /\ ~sockOpen[s]
    /\ ChatFindById(sockHs[s][1]) # NoChat
    /\ isValidObjectId(sockHs[s][2]) /\ UserFindById(sockHs[s][2]) = NoUser

(* -------------------------------- typing ------------------------------- *)
(* the step in which the main process answers the typing request r         *)
TypingAnswered(r) ==
  reqMsg[r].op = "postChatUserTyping" /\ reqPc[r] = "reply" /\ reqPc'[r] = "done"

NewRemoved == SubSeq(removed', Len(removed) + 1, Len(removed'))

(* C17: while no message and no chat is created, only the first of the     *)
(* runs of the sweep deletes documents: a run that starts when the         *)
(* previous one has returned deletes no message and no chat.               *)
C17_SweepIdempotent ==
  (\A r \in Reqs : reqPc[r] = "idle")
    => \A i \in 1..Len(removed) : removed[i].run = 1

GeneralChats == SelectSeq(chats, LAMBDA c : c.name = "general-chat")

(* C18: once createGeneralChatIfNotExists has run there is exactly one     *)
(* chat named general-chat, whatever startups, createChat requests and     *)
(* sweeps follow, and when the sweep has handled general-chat none of its  *)
(* messages with createdAt <= sinceDate is left.                           *)
C18_OneGeneralChat ==
  [][/\ Len(GeneralChats') <= 1
     /\ bootPc' \in {"gDone", "sweep", "up"} => Len(GeneralChats') = 1
     /\ Len(GeneralChats) = 1 => Len(GeneralChats') = 1
     /\ \A w \in Runs :
          (swPc[w] = "deleteMany" /\ swIdx'[w] # swIdx[w])
            => \A j \in 1..Len(messages') :
                 ~IsOldMessageOf(messages'[j], swChats[w][swIdx[w]], swSince[w])]_vars

(* after a start on a store that already had general-chat, a sweep has     *)
(* deleted messages of general-chat and has returned with nothing          *)
(* pending, and a createChat with the name general-chat was answered 400   *)
C18_Witness ==
  /\ bootPc = "up"
  /\ Len(GeneralChats) = 1 /\ GeneralChats[1].createdAt < Now
  /\ \E i \in 1..Len(removed) :
       removed[i].kind = "message" /\ removed[i].doc.chat = GeneralChats[1].id
  /\ \E w \in Runs :
       swPc[w] = "returned" /\ swCounting[w] = {} /\ swRemoving[w] = {}
  /\ \E r \in Reqs :
       /\ reqMsg[r].op = "createChat" /\ reqMsg[r].text = "general-chat"
       /\ reqPc[r] = "done" /\ reqRes[r].statusCode = 400

(* C19: a chat the sweep deletes is not general-chat, was created not      *)
(* later than sinceDate and has no message at the moment it is deleted,    *)
(* and every message in the store belongs to a chat in the store.          *)
C19_SweepDeletesOnlyEmptyChats ==
  [][/\ \A i \in 1..Len(NewRemoved) :
          NewRemoved[i].kind = "chat" =>
            /\ NewRemoved[i].doc.name # "general-chat"
            /\ NewRemoved[i].doc.createdAt <= swSince[NewRemoved[i].run]
            /\ countDocuments(NewRemoved[i].doc) = 0
     /\ \A j \in 1..Len(messages') :
          \E k \in 1..Len(chats') : chats'[k].id = messages'[j].chat]_vars

(* C20: the chat of every connected socket that has joined a room is in   *)
(* the store: the sweep, which evicts no connection, deletes no chat that  *)
(* a live connection refers to.                                            *)
C20_SweepSparesChatsInUse ==
  \A s \in Sockets :
    (sockOpen[s] /\ sockPc[s] = "joined") => IsSaved(chats, sockRoom[s])

(* --------------------------- typing tracker ---------------------------- *)
(* the step is the handler of the event called name on socket s            *)
Handled(s, name) ==
  /\ inbox[s] # <<>> /\ Head(inbox[s]).name = name
  /\ received'[s] = Append(received[s], Head(inbox[s]))

(* the step is the callback of timeout t of socket s                       *)
Fired(s, t) == t \in timers[s] /\ t \notin timers'[s] /\ received'[s] = received[s]

Listed(s, u) == findTypingUserIndexById(typing[s], u) > 0

(* the userTyping events the step posts to the main thread                 *)
NewTyping(s) ==
  SelectSeq(SubSeq(posted'[s], Len(posted[s]) + 1, Len(posted'[s])),
            LAMBDA e : e.event = "userTyping")

(* C21: the typing list of a client never holds two entries of one user,   *)
(* and a userStartedTyping of a listed user changes neither the list nor   *)
(* the pending timeouts, and schedules no timeout.                         *)
C21_StartIsNoOpWhenListed ==
  [][\A s \in Sockets :
       /\ \A i, j \in 1..Len(typing'[s]) :
            i # j => typing'[s][i].user.id # typing'[s][j].user.id
       /\ (Handled(s, "userStartedTyping") /\ Listed(s, Head(inbox[s]).payload.id))
            => /\ typing'[s] = typing[s]
               /\ timers'[s] = timers[s]
               /\ nextTimer'[s] = nextTimer[s]]_vars

(* a client has handled two userStartedTyping of another user in a row and *)
(* lists that user once, with the first timeout still pending              *)
C21_Witness ==
  \E s \in Sockets : \E i \in 1..(Len(received[s]) - 1) :
    /\ received[s][i].name = "userStartedTyping"
    /\ received[s][i + 1].name = "userStartedTyping"
    /\ received[s][i].payload = received[s][i + 1].payload
    /\ i + 1 = Len(received[s])
    /\ Listed(s, received[s][i].payload.id)
    /\ \E t \in timers[s] : t.user = received[s][i].payload.id

(* C22: a step posts one userTyping, carrying the list after the step, if  *)
(* it handles a userStartedTyping of another user or a userStoppedTyping   *)
(* or is the callback of a timeout, and posts no userTyping otherwise.     *)
C22_EveryTypingEventPublishes ==
  [][\A s \in Sockets :
       LET caused ==
             \/ /\ Handled(s, "userStartedTyping")
                /\ Head(inbox[s]).payload.id # sockHs[s][2]
             \/ Handled(s, "userStoppedTyping")
             \/ \E t \in timers[s] : Fired(s, t)
       IN /\ Len(NewTyping(s)) = IF caused THEN 1 ELSE 0
          /\ \A i \in 1..Len(NewTyping(s)) :
               NewTyping(s)[i].data = getTypingUsers(typing'[s])]_vars

(* C23: a userStoppedTyping of a listed user removes the entry of that     *)
(* user and nothing else and clears its timeout; of a user not listed it   *)
(* changes neither the list nor the timeouts.  The pending timeouts are    *)
(* always those of the listed entries, so a cleared one never runs.        *)
C23_StopRemovesEntryAndTimer ==
  [][\A s \in Sockets :
       /\ Handled(s, "userStoppedTyping") =>
            LET u == Head(inbox[s]).payload.id
                i == findTypingUserIndexById(typing[s], u)
            IN IF i > 0
               THEN /\ typing'[s] = SubSeq(typing[s], 1, i - 1)
                                      \o SubSeq(typing[s], i + 1, Len(typing[s]))
                    /\ timers'[s] =
                         timers[s] \ {[id |-> typing[s][i].timeout, user |-> u]}
                    /\ [id |-> typing[s][i].timeout, user |-> u] \in timers[s]
               ELSE typing'[s] = typing[s] /\ timers'[s] = timers[s]
       /\ timers'[s] =
            {[id |-> typing'[s][i].timeout, user |-> typing'[s][i].user.id] :
               i \in 1..Len(typing'[s])}]_vars

(* a user stopped typing and started again: the entry carries the second   *)
(* timeout and the first one is not pending                                *)
C23_Witness ==
  \E s \in Sockets : \E i \in 1..Len(typing[s]) :
    /\ typing[s][i].timeout > 1
    /\ \E j, k \in 1..Len(received[s]) :
         /\ j < k
         /\ received[s][j].name = "userStoppedTyping"
         /\ received[s][j].payload.id = typing[s][i].user.id
         /\ received[s][k].name = "userStartedTyping"
         /\ received[s][k].payload.id = typing[s][i].user.id
         /\ \E h \in 1..(j - 1) :
              /\ received[s][h].name = "userStartedTyping"
              /\ received[s][h].payload.id = typing[s][i].user.id
    /\ \A t \in timers[s] :
         t.user = typing[s][i].user.id => t.id = typing[s][i].timeout

(* C24: a user listed by the client is eventually not listed; the callback *)
(* of a timeout removes its user and posts a list without that user, every *)
(* list posted is the list after the step, and a user enters the list only *)
(* by a userStartedTyping of that user.                                    *)
C24_EntriesExpire ==
  /\ \A u \in TypingUsers : Listed(Tracker, u) ~> ~Listed(Tracker, u)
  /\ [][\A s \in Sockets :
          /\ \A t \in timers[s] :
               Fired(s, t) =>
                 /\ findTypingUserIndexById(typing'[s], t.user) = 0
                 /\ Len(NewTyping(s)) = 1
          /\ \A i \in 1..Len(NewTyping(s)) :
               NewTyping(s)[i].data = getTypingUsers(typing'[s])
          /\ \A u \in TypingUsers :
               (~Listed(s, u) /\ findTypingUserIndexById(typing'[s], u) > 0)
                 => /\ Handled(s, "userStartedTyping")
                    /\ Head(inbox[s]).payload.id = u]_vars

(* a timeout has run: a user who started typing and never stopped is not   *)
(* listed, and the last list posted is without that user                   *)
C24_Witness ==
  \E s \in Sockets : \E u \in TypingUsers :
    /\ ~Listed(s, u)
    /\ \E k \in 1..Len(received[s]) :
         received[s][k].name = "userStartedTyping" /\ received[s][k].payload.id = u
    /\ \A k \in 1..Len(received[s]) :
         received[s][k].name = "userStoppedTyping" => received[s][k].payload.id # u
    /\ u # sockHs[s][2]
    /\ posted[s] # <<>>
    /\ \A i \in 1..Len(posted[s][Len(posted[s])].data) :
         posted[s][Len(posted[s])].data[i].id # u

(* ------------------------------ the api -------------------------------- *)
IsLogIn(r) == reqMsg[r].op = "logInUser" /\ reqPc[r] = "done"

(* C25: an answered logInUser has the status 400 for a missing or          *)
(* malformed id, 404 for an id of no stored user, and 200 with the user    *)
(* for the id of a stored user.                                            *)
C25_LogInStatus ==
  \A r \in Reqs :
    IsLogIn(r) =>
      IF ~isValidObjectId(reqMsg[r].userId)
      THEN reqRes[r].statusCode = 400
      ELSE IF UserFindById(reqMsg[r].userId) = NoUser
           THEN reqRes[r].statusCode = 404
           ELSE /\ reqRes[r].statusCode = 200
                /\ reqRes[r].user = UserToClientObject(UserFindById(reqMsg[r].userId))

IsGetMessages(r) == reqMsg[r].op = "getChatMessages" /\ reqPc[r] = "done"

(* C26: an answered getChatMessages has the status 404 for the id of no    *)
(* stored chat and, for a stored chat, the status 200 with the stored      *)
(* messages of that chat, in order.                                        *)
C26_MessagesOfChatOrNotFound ==
  \A r \in Reqs :
    (IsGetMessages(r) /\ isValidObjectId(reqMsg[r].chatId)) =>
      IF ChatFindById(reqMsg[r].chatId) = NoChat
      THEN reqRes[r].statusCode = 404
      ELSE /\ reqRes[r].statusCode = 200
           /\ [i \in 1..Len(reqRes[r].list) |-> reqRes[r].list[i].id]
                = [i \in 1..Len(MessageFindByChat(reqMsg[r].chatId)) |->
                     MessageFindByChat(reqMsg[r].chatId)[i].id]

IsRegister(r) == reqMsg[r].op = "registerUser" /\ reqPc[r] = "done"

MaxTag(us) == IF us = <<>> THEN 0 ELSE CHOOSE n \in {us[i].tag : i \in 1..Len(us)} :
                                         \A i \in 1..Len(us) : us[i].tag <= n

(* C27: when requests are sent one after another, the step that saves a    *)
(* registered user gives it the tag 1 if there is no user and the greatest *)
(* tag + 1 otherwise; a registerUser with an empty username is answered    *)
(* 400 and no step of it changes the users.                                *)
C27_SequentialTags ==
  [][/\ users' # users =>
          /\ Len(users') = Len(users) + 1
          /\ SubSeq(users', 1, Len(users)) = users
          /\ users'[Len(users')].tag = MaxTag(users) + 1
     /\ \A r \in Reqs :
          (reqMsg'[r].op = "registerUser" /\ reqMsg'[r].text = "" /\ reqPc'[r] # reqPc[r])
            => users' = users /\ reqRes'[r].statusCode = 400]_vars

(* on the store with one user a registration was rejected for its empty    *)
(* username and the next one succeeded, with the tag 2                     *)
C27_Witness ==
  /\ Len(users) = 2 /\ users[1].tag = 1 /\ users[2].tag = 2
  /\ \E r, q \in Reqs :
       /\ r < q
       /\ IsRegister(r) /\ reqMsg[r].text = "" /\ reqRes[r].statusCode = 400
       /\ IsRegister(q) /\ reqRes[q].statusCode = 200 /\ reqRes[q].user.tag = 2

(* --------------------------- typing indicator -------------------------- *)
SpansOf(nodes) == SelectSeq(nodes, LAMBDA x : "span" \in DOMAIN x)

(* C28: after drawTypingUsers of a list of n users the indicator is hidden *)
(* and empty for n = 0; for n = 1 it shows the user and " is typing...";   *)
(* for n = 2 or 3 it shows all n users in order, " and " before the last   *)
(* one, and " are typing..."; for n > 3 it shows only "Several people are  *)
(* typing...".                                                             *)
C28_TypingThresholds ==
  uiTyping.calls > 0 =>
    LET us == uiTyping.of
        n == Len(us)
        nodes == uiTyping.nodes
    IN /\ n = 0 => uiTyping.hidden /\ nodes = <<>>
       /\ n = 1 => /\ ~uiTyping.hidden
                   /\ nodes = <<Span(us[1]), TextNode(" is typing...")>>
       /\ n \in {2, 3} =>
            /\ ~uiTyping.hidden
            /\ SpansOf(nodes) = [i \in 1..n |-> Span(us[i])]
            /\ nodes[Len(nodes)] = TextNode(" are typing...")
            /\ nodes[Len(nodes) - 1] = Span(us[n])
            /\ nodes[Len(nodes) - 2] = TextNode(" and ")
       /\ n > 3 => /\ ~uiTyping.hidden
                   /\ nodes = <<TextNode("Several people are typing...")>>

(* a list of three users has been drawn                                    *)
C28_Witness ==
  /\ uiTyping.calls > 0 /\ Len(uiTyping.of) = 3
  /\ Len(uiTyping.nodes) = 6

(* ----------------------------- worker pool ----------------------------- *)
SentCalls == {r \in Reqs : promises[r].state # "none"}

(* the step is onMessage of the pool for the message at the head of the    *)
(* channel of worker w                                                     *)
PoolHandles(w) == toMain[w] # <<>> /\ toMain'[w] = Tail(toMain[w])

RepliesOf(id) == SelectSeq(replies, LAMBDA x : x.id = id /\ ~x.stray)

(* the ids of the messages a worker has received                           *)
ReceivedIds ==
  {promises[r].id : r \in SentCalls}
    \ UNION {{toWorker[w][i].id : i \in 1..Len(toWorker[w])} : w \in Workers}

(* C30: for every message a worker has received, work has sent no reply    *)
(* while the promise of the job is pending and exactly one reply with the  *)
(* id of the message otherwise: a data reply if the callback returned or   *)
(* its promise resolved, an error reply if it threw, if its promise        *)
(* rejected or if no job is registered for the op.                         *)
C30_OneReplyPerMessage ==
  \A id \in ReceivedIds :
    IF \E j \in running : j.id = id
    THEN RepliesOf(id) = <<>>
    ELSE /\ Len(RepliesOf(id)) = 1
         /\ RepliesOf(id)[1].kind =
              IF RepliesOf(id)[1].how \in {"returns", "resolves"} THEN "data" ELSE "error"

(* a worker has replied to a message with an op without a job and to one   *)
(* whose promise rejected                                                  *)
C30_Witness ==
  /\ \E i \in 1..Len(replies) : replies[i].how = "noJob" /\ replies[i].kind = "error"
  /\ \E i \in 1..Len(replies) : replies[i].how = "rejects" /\ replies[i].kind = "error"
  /\ running = {}
(* C31: under the default policy send gives the job to the lowest-indexed  *)
(* worker that is not busy and, only when every worker is busy, to the     *)
(* next worker of the circular sequence, which then advances; under the    *)
(* round-robin policy every numCPUs * k consecutive sends give each worker *)
(* exactly k jobs.                                                         *)
Picked == sentTo'[Len(sentTo')]

SendStep == Len(sentTo') = Len(sentTo) + 1

SentInWindow(w, start, len) ==
  Cardinality({i \in start..(start + len - 1) : sentTo[i] = w})

C31_WorkerSelection ==
  /\ [][(SendStep /\ schedulingPolicy = SCHED_DEFAULT) =>
          /\ Len(toWorker'[Picked]) = Len(toWorker[Picked]) + 1
          /\ IF \E w \in Workers : ~busy[w]
             THEN /\ ~busy[Picked]
                  /\ \A q \in 1..(Picked - 1) : busy[q]
                  /\ rrNext' = rrNext
             ELSE /\ Picked = rrNext
                  /\ rrNext' = (rrNext % numCPUs) + 1]_vars
  /\ [](schedulingPolicy = SCHED_RR =>
          \A k \in 1..MaxCalls : \A start \in 1..MaxCalls :
            start + numCPUs * k - 1 <= Len(sentTo) =>
              \A w \in Workers : SentInWindow(w, start, numCPUs * k) = k)

(* under the default policy a freed first worker was picked again while    *)
(* the second was busy, and a later send found every worker busy           *)
C31_Witness ==
  /\ schedulingPolicy = SCHED_DEFAULT
  /\ Len(sentTo) = 4
  /\ sentTo = <<1, 1, 2, 1>>
  /\ rrNext = 2

(* C37: under the default policy a worker that is not busy has no job      *)
(* outstanding: no message sent to it is still to be received by it and no *)
(* job is running on it.                                                   *)
Outstanding(w) ==
  {toWorker[w][i].id : i \in 1..Len(toWorker[w])} \cup {j.id : j \in {x \in running : x.worker = w}}

C37_IdleWorkerHasNoJob ==
  schedulingPolicy = SCHED_DEFAULT =>
    \A w \in Workers : ~busy[w] => Outstanding(w) = {}

(* C32: every run of the sweep that Server starts, the one at startup and  *)
(* each one started by the interval timer, has a defined sinceDate, two    *)
(* weeks before the time of the run, and its deleteMany of a chat deletes  *)
(* exactly the messages of the chat created not later than that.           *)
Cutoff == Now - twoWeeksInMilliSeconds

C32_EveryRunHasCutoff ==
  /\ [](\A w \in Runs : swPc[w] # "idle" => (swSince[w] # Undefined /\ swSince[w] = Cutoff))
  /\ [][\A w \in Runs :
          (swPc[w] = "deleteMany" /\ swIdx'[w] # swIdx[w]) =>
            LET chat == swChats[w][swIdx[w]]
            IN NewRemoved =
                 RemovedBy("message",
                   SelectSeq(messages,
                     LAMBDA m : m.chat = chat.id /\ m.createdAt <= Cutoff), w)]_vars

(* C33: a socket connects and a request is handled only after             *)
(* createGeneralChatIfNotExists and clearChatsFromUsers have completed:    *)
(* general-chat is in the store by then, and the updateMany of             *)
(* clearChatsFromUsers is applied before any onConnect has run, so that it *)
(* erases no entry an onConnect added.                                     *)
ClearStep == clearPc = "pending" /\ clearPc' = "done"

C33_ListenAfterStartup ==
  /\ [](\A s \in Sockets : sockPc[s] # "new" =>
          (bootPc = "up" /\ clearPc = "done" /\ Len(GeneralChats) = 1))
  /\ [](\A r \in Reqs : reqPc[r] # "idle" =>
          (bootPc = "up" /\ clearPc = "done" /\ Len(GeneralChats) = 1))
  /\ [][ClearStep => \A s \in Sockets : sockPc[s] = "new"]_vars

(* the server started on a store whose general-chat listed a user left by  *)
(* an earlier start, and a socket has joined general-chat since: the       *)
(* users list holds the entry its onConnect added                          *)
C33_Witness ==
  /\ bootPc = "up" /\ clearPc = "done"
  /\ \E s \in Sockets : sockPc[s] = "joined"
  /\ Len(GeneralChats) = 1
  /\ GeneralChats[1].createdAt < Now
  /\ GeneralChats[1].users = <<1>>
  /\ GeneralChats[1].v = 2

(* C35: the typing list of a client never holds the user the client       *)
(* connected as: a userStartedTyping of that user adds no entry, schedules *)
(* no timeout and posts nothing to the main thread.                        *)
C35_OwnUserNeverListed ==
  [][\A s \in Sockets :
       /\ \A i \in 1..Len(typing'[s]) : typing'[s][i].user.id # sockHs'[s][2]
       /\ (Handled(s, "userStartedTyping") /\ Head(inbox[s]).payload.id = sockHs[s][2])
            => /\ typing'[s] = typing[s]
               /\ timers'[s] = timers[s]
               /\ nextTimer'[s] = nextTimer[s]
               /\ posted'[s] = posted[s]]_vars

(* the client has just handled a userStartedTyping of its own user while   *)
(* another user is listed                                                  *)
C35_Witness ==
  \E s \in Sockets :
    /\ received[s] # <<>>
    /\ received[s][Len(received[s])].name = "userStartedTyping"
    /\ received[s][Len(received[s])].payload.id = sockHs[s][2]
    /\ Len(typing[s]) = 1
    /\ Len(posted[s]) = 1

(* C36: in every state the pending timeouts of a client and the entries of *)
(* its typing list correspond one to one: each listed user has exactly one *)
(* pending timeout, the one of its entry, and no timeout is pending for a  *)
(* user that is not listed.                                                *)
TimersOf(s, u) == {t \in timers[s] : t.user = u}

C36_TimersMatchEntries ==
  \A s \in Sockets :
    /\ \A i \in 1..Len(typing[s]) :
         /\ Cardinality(TimersOf(s, typing[s][i].user.id)) = 1
         /\ \E t \in timers[s] : t.id = typing[s][i].timeout /\ t.user = typing[s][i].user.id
    /\ \A t \in timers[s] : Listed(s, t.user)
    /\ Cardinality(timers[s]) = Len(typing[s])

(* two users are listed with one timeout each after three timeouts were    *)
(* scheduled: an entry has been removed by a stop or by its timeout        *)
C36_Witness ==
  \E s \in Sockets :
    /\ Len(typing[s]) = 2
    /\ Cardinality(timers[s]) = 2
    /\ nextTimer[s] = 4

(* C34: in the App state a userDisconnected of a user removes the entry of *)
(* that user from app.users and nothing else, and changes nothing when the *)
(* user is not listed; a userStoppedTyping of another user, and the        *)
(* timeout of a typing entry, remove the typing entry of that user and     *)
(* nothing else, and change nothing when the user has none.                *)
Arrived(s) == received'[s] # received[s]

LastArrived(s) == received'[s][Len(received'[s])]

WithoutUser(us, userId) ==
  IF \E i \in 1..Len(us) : us[i].id = userId
  THEN splice(us, CHOOSE i \in 1..Len(us) :
                    us[i].id = userId /\ \A j \in 1..(i - 1) : us[j].id # userId)
  ELSE us

WithoutTypingUser(tw, userId) ==
  IF findTypingUserIndexById(tw, userId) > 0
  THEN splice(tw, findTypingUserIndexById(tw, userId))
  ELSE tw

C34_RemoveOnlyTheNamedUser ==
  [][/\ (Arrived(Tracker) /\ LastArrived(Tracker).name = "userDisconnected")
          => appUsers' = WithoutUser(appUsers, LastArrived(Tracker).payload.id)
     /\ (/\ Arrived(Tracker)
         /\ LastArrived(Tracker).name = "userStoppedTyping"
         /\ LastArrived(Tracker).payload.id # sockHs[Tracker][2])
          => appTypingUsers' =
               WithoutTypingUser(appTypingUsers, LastArrived(Tracker).payload.id)
     /\ \A t \in timers[Tracker] :
          Fired(Tracker, t) =>
            appTypingUsers' = WithoutTypingUser(appTypingUsers, t.user)]_vars

(* C38: the list of chat users of the client has no two entries with one   *)
(* id and is in the order of lower-cased name, then tag; a userConnected   *)
(* of a listed user changes nothing and posts nothing; one of a new user   *)
(* adds that user and posts it with the entry that follows it in the list  *)
(* as nextUser; a userDisconnected removes the entry of that user only.    *)
C38_RosterSortedAndUnique ==
  /\ [](RosterOrdered(chatUsers))
  /\ [][Arrived(Tracker) =>
          LET user == LastArrived(Tracker).payload
              listed == \E i \in 1..Len(chatUsers) : chatUsers[i].id = user.id
          IN /\ (LastArrived(Tracker).name = "userConnected" /\ listed)
                  => (chatUsers' = chatUsers /\ posted'[Tracker] = posted[Tracker])
             /\ (LastArrived(Tracker).name = "userConnected" /\ ~listed)
                  => /\ Len(chatUsers') = Len(chatUsers) + 1
                     /\ \A i \in 1..Len(chatUsers) :
                          \E j \in 1..Len(chatUsers') : chatUsers'[j] = chatUsers[i]
                     /\ \E j \in 1..Len(chatUsers') :
                          /\ chatUsers'[j] = user
                          /\ posted'[Tracker] = Append(posted[Tracker],
                               Posted("userConnected",
                                 [user |-> user,
                                  nextUser |-> IF j < Len(chatUsers')
                                               THEN chatUsers'[j + 1] ELSE NoUser]))
             /\ LastArrived(Tracker).name = "userDisconnected"
                  => chatUsers' = WithoutUser(chatUsers, user.id)]_vars

(* the four users are listed in order, Bob #2 between bob #1 and Cy, after *)
(* a userConnected of a listed user was ignored and a new user was posted  *)
(* with the user that follows it                                           *)
C38_Witness ==
  /\ Len(chatUsers) = 4
  /\ chatUsers[1].name = "al" /\ chatUsers[2].name = "bob"
  /\ chatUsers[3].name = "Bob" /\ chatUsers[4].name = "Cy"
  /\ \E k \in 1..Len(posted[Tracker]) :
       /\ posted[Tracker][k].event = "userConnected"
       /\ posted[Tracker][k].data.user.name = "Bob"
       /\ posted[Tracker][k].data.nextUser.name = "Cy"
  /\ \E k \in 1..Len(received[Tracker]) :
       /\ received[Tracker][k].name = "userConnected"
       /\ \A h \in 1..Len(posted[Tracker]) :
            posted[Tracker][h].event = "userConnected"
              => posted[Tracker][h].data.user # received[Tracker][k].payload

====
